---- MODULE Spec2Model ----
(***************************************************************************)
(* Model of the CAS -> CID resolution engine of rug_chemsearch_cl          *)
(* (src/extract_chemicals.py).                                             *)
(*                                                                         *)
(*   Spec        repeated runs of lookup_cas_to_cid_optimized over a       *)
(*               process-wide dump, the persistent cache file cache.json   *)
(*               and the two network tiers (CTS, PubChem PUG REST);        *)
(*   SpecFanOut  one large resolution batch, for the semaphores of         *)
(*               lookup_via_cts_async and lookup_pubchem_async;            *)
(*   SpecSync    the synchronous loop lookup_cas_in_pubchem.               *)
(*                                                                         *)
(* Identifiers (CAS numbers) are the integers 1..n, CIDs the integers      *)
(* 1..MaxCid, Python's None is NoCid.  Python dicts are functions whose    *)
(* domain is the key set; the lists of distinct identifiers handed to the  *)
(* tiered lookup are sets (the code only filters them and keys dicts with  *)
(* them).                                                                  *)
(***************************************************************************)
EXTENDS Integers, Sequences, FiniteSets, TLC

\* ---------------------------------------------------------------- bounds
MaxIds == 2
MaxCid == 2
FanOutCts == 11
FanOutApi == 6

\* ------------------------------------------------------ program constants
NoCid == 0
Raised == 0 - 1
CtsCap == 10
ApiCap == 5

Ids == 1..MaxIds
Cids == 1..MaxCid

VARIABLES
    \* process and disk
    dump,            \* _pubchem_dump_cache: identifier -> CID
    cacheFile,       \* contents of cache.json: identifier -> CID or NoCid
    cacheText,       \* what cache.json holds: "json", "invalid_json", "undecodable"
    errCached,       \* history: keys of cacheFile written from a transport error
    ctsNet, apiNet,  \* environment: responses each service can give per identifier
    \* one call of lookup_cas_to_cid_optimized
    pc,              \* "idle" | "cts" | "api" | "done" | "crashed"
    cas_numbers, from_dump, cache, from_cache, cacheLookups,
    ctsSt, ctsResp, cts_results,
    apiSt, apiResp, pubchem_results,
    collected, collPc,
    sawFull,         \* history: a tier's semaphore had no permit left in this call
    results,
    \* one call of lookup_cas_in_pubchem
    s_list, s_i, s_pc, s_reqs, s_log, s_results

VARIABLES
    v_cas,            \* the string handed to validate_cas_number
    v_pc,             \* "off", "input", "validated", "once", "twice"
    v_valid,          \* what validate_cas_number(v_cas) returned
    n_once,           \* the row after one trim-and-validate pass
    n_twice,          \* the result of passing n_once through it again
    e_column,         \* the identifier column as a list of strings
    e_pc,             \* "off", "input", "done"
    valid_cas,        \* list returned by extract_cas_numbers
    seen,             \* its set of identifiers already appended
    invalid_count     \* its count of rejected rows

VARIABLES
    our_cids,         \* CIDs of the local CID cache (cids of combine_pubchem)
    user_set,         \* the id set the user's handle stands for remotely
    filter_results,   \* filter_results.json, a list of FilterResults
    app_searches,     \* cache_keys of app_searches.json
    c_calls,          \* combine calls made; the source of fresh keys and ids
    c_ret,            \* JSON answer of the last combine call
    c_last,           \* what the last combine call did
    c_by              \* (path, operation) |-> id set that path produced

VARIABLES
    f_clock,          \* FilterResults created so far; the next id and creation time
    f_toggles,        \* toggle_saved_filter calls made
    f_deletes         \* delete_filter_result calls made

VARIABLES
    stale_searches,   \* cache_keys of stale_searches.json
    l_calls,          \* save_app_search and mark_search_as_stale calls made
    l_last            \* the last of those calls: function and key

VARIABLES
    firefox_store,    \* history entries in Firefox's localStorage, as stored
    chrome_store,     \* history entries in Chrome's localStorage, as stored
    h_pc,             \* "off", "input", "read", "viewed"
    h_modes,          \* what went wrong inside each adapter on the last read
    h_out,            \* what get_pubchem_history_details gave its caller
    app_search_metadata,  \* the "searches" list of the app searches file
    h_view            \* what pubchem_history answered

VARIABLES
    rug_rows,         \* rows of rug_table.json
    cid_cache,        \* cid_cache.json: whether it is there, and its results
    pending_repairs,  \* pending_repairs.json, NoPending when the file is absent
    r_status,         \* _repair_status["status"]
    r_pc,             \* position of the repair thread: "off", "search", "finish"
    r_result,         \* what repair_unmatched_entries returned to the thread
    r_runs,           \* repair tasks started
    r_applies,        \* apply_repairs requests served
    r_applied         \* the last answer of apply_repairs

VARIABLES
    t_status,         \* _repair_status["status"] and _compound_info_status["status"]
    t_call,           \* per task, each start call: how far it got and its thread
    t_force           \* _compound_info_force

VARIABLES
    dump_lines,       \* the lines of the dump file, (cid, cas) pairs in file order
    dump_load,        \* how load_pubchem_dump ends: "ok", "missing", "raise"
    repair_match      \* what repair_entry_by_text_search returned last

lookupVars == <<pc, cas_numbers, from_dump, cache, from_cache, cacheLookups,
                ctsSt, ctsResp, cts_results, apiSt, apiResp, pubchem_results,
                collected, collPc, sawFull, results>>
diskVars == <<dump, cacheFile, cacheText, errCached, ctsNet, apiNet>>
syncVars == <<s_list, s_i, s_pc, s_reqs, s_log, s_results>>
casVars == <<v_cas, v_pc, v_valid, n_once, n_twice,
             e_column, e_pc, valid_cas, seen, invalid_count>>
combVars == <<our_cids, user_set, filter_results, app_searches,
              c_calls, c_ret, c_last, c_by>>
storeVars == <<f_clock, f_toggles, f_deletes>>
listVars == <<stale_searches, l_calls, l_last>>
taskVars == <<t_status, t_call, t_force>>
searchVars == <<dump_lines, dump_load, repair_match>>
extraVars == <<taskVars, searchVars>>
histVars == <<firefox_store, chrome_store, h_pc, h_modes, h_out,
              app_search_metadata, h_view>>
repairVars == <<rug_rows, cid_cache, pending_repairs, r_status, r_pc, r_result,
                r_runs, r_applies, r_applied>>
moreVars == <<storeVars, listVars, histVars, repairVars, extraVars>>
toolVars == <<casVars, combVars, moreVars>>
vars == <<diskVars, lookupVars, syncVars, toolVars>>

\* ------------------------------------------------------------- dict helpers
EmptyMap == [x \in {} |-> NoCid]

\* {**a, **b}: the right operand wins on a shared key
Merge(a, b) ==
    [k \in (DOMAIN a) \cup (DOMAIN b) |-> IF k \in DOMAIN b THEN b[k] ELSE a[k]]

\* d.get(k): the value, or None for a missing key
Get(d, k) == IF k \in DOMAIN d THEN d[k] ELSE NoCid

PartialMaps(S, T) == UNION {[D -> T] : D \in SUBSET S}

\* ------------------------------------------------------- network responses
Ok(c) == [kind |-> "http", status |-> 200, body |-> "cids", cid |-> c]
Http200(b) == [kind |-> "http", status |-> 200, body |-> b, cid |-> NoCid]
HttpStatus(s) == [kind |-> "http", status |-> s, body |-> "none", cid |-> NoCid]
Raises(k) == [kind |-> k, status |-> 0, body |-> "none", cid |-> NoCid]

CtsResponses ==
    {Ok(c) : c \in Cids}
        \cup {Http200("empty"), Http200("malformed"), HttpStatus(500),
              Raises("timeout"), Raises("connerr")}

ApiResponses ==
    {Ok(c) : c \in Cids}
        \cup {Http200("empty"), Http200("malformed"), HttpStatus(404),
              HttpStatus(500), Raises("timeout"), Raises("connerr")}

\* a timeout, a connection failure, or a status that is neither 200 nor 404
Transient(r) == r.kind # "http" \/ r.status \notin {200, 404}

\* ------------------------------------------------ the two per-request fetches
\* what the body of the try block of fetch_single_cas_cts evaluates to for
\* response r (lines 692-699): Raised when session.get, response.json(),
\* data[0] or int() raises
CtsTry(r) ==
    IF r.kind # "http" THEN Raised
    ELSE IF r.status = 200
         THEN IF r.body = "malformed" THEN Raised
              ELSE IF r.body = "cids" THEN r.cid ELSE NoCid
         ELSE NoCid

fetch_single_cas_cts_NoExcept(r) == CtsTry(r)

\* fetch_single_cas_cts: "except Exception: return (cas, None)"
fetch_single_cas_cts(r) ==
    IF CtsTry(r) = Raised THEN NoCid ELSE CtsTry(r)

\* the try block of fetch_single_cas_async (lines 753-759)
ApiTry(r) ==
    IF r.kind # "http" THEN Raised
    ELSE IF r.status = 200
         THEN IF r.body = "malformed" THEN Raised
              ELSE IF r.body = "cids" THEN r.cid ELSE NoCid
         ELSE NoCid

\* fetch_single_cas_async: "except Exception: return (cas, None)"
fetch_single_cas_async(r) ==
    IF ApiTry(r) = Raised THEN NoCid ELSE ApiTry(r)

\* ------------------------------------------------------- _format_results
_format_results(cid_map) ==
    [k \in DOMAIN cid_map |->
        IF cid_map[k] # NoCid
        THEN [status |-> "found", cid |-> cid_map[k]]
        ELSE [status |-> "not_found", cid |-> NoCid]]

\* ------------------------------------------- lookup_cas_to_cid_optimized
\* layer 1 (lines 833-835)
FromDump(B) == [k \in B \cap DOMAIN dump |-> dump[k]]
RemainingAfterDump_KeepsHits(B) == B
RemainingAfterDump(B) == {k \in B : k \notin DOMAIN dump}

\* layer 2 (lines 843-845); load_cache returns the file's dict
\* only a file that parses is read without raising
CacheReadable_JsonOnly == cacheText = "json"
\* read_text raises for bytes that are not text of the encoding
CacheReadable == cacheText # "undecodable"
\* JSONDecodeError and OSError give {}
load_cache == IF cacheText = "json" THEN cacheFile ELSE EmptyMap
FromCache(R, c) == [k \in R \cap DOMAIN c |-> c[k]]
RemainingAfterCache_KeepsHits(R, c) == R
RemainingAfterCache(R, c) == {k \in R : k \notin DOMAIN c}

InFlight(st) == Cardinality({k \in DOMAIN st : st[k] = "inflight"})
AllDone(st) == \A k \in DOMAIN st : st[k] = "done"

\* lookup_cas_to_cid_async lines 805-806
FoundInCts == [k \in {j \in DOMAIN cts_results : cts_results[j] # NoCid} |-> cts_results[k]]
\* "cas not in cts_results" instead of "cts_results.get(cas) is None"
StillMissing_KeyTest == {k \in DOMAIN ctsSt : k \notin DOMAIN cts_results}
\* every identifier is sent to the fallback
StillMissing_All == DOMAIN ctsSt
StillMissing == {k \in DOMAIN ctsSt : Get(cts_results, k) = NoCid}

\* only CIDs that were found are written to the cache
FinishLookup_FoundOnly(new_results) ==
    /\ cacheFile' = Merge(cache, [k \in {j \in DOMAIN new_results : new_results[j] # NoCid}
                                    |-> new_results[k]])
    /\ cacheText' = "json"
    /\ errCached' = errCached \ DOMAIN new_results
    /\ results' = _format_results(Merge(Merge(from_dump, from_cache), new_results))
    /\ pc' = "done"

\* lines 856-868: merge, write the cache back, format
FinishLookup(new_results) ==
    /\ cacheFile' = Merge(cache, new_results)
    /\ cacheText' = "json"
    /\ errCached' = (errCached \ DOMAIN new_results)
                        \cup {k \in DOMAIN new_results :
                                k \in DOMAIN apiResp' /\ Transient(apiResp'[k])}
    /\ results' = _format_results(Merge(Merge(from_dump, from_cache), new_results))
    /\ pc' = "done"

NoNetwork ==
    /\ ctsSt' = EmptyMap /\ ctsResp' = EmptyMap /\ cts_results' = EmptyMap
    /\ apiSt' = EmptyMap /\ apiResp' = EmptyMap /\ pubchem_results' = EmptyMap
    /\ collected' = 0 /\ collPc' = "await"
    /\ sawFull' = [cts |-> FALSE, api |-> FALSE]

\* the synchronous prefix of the call, up to asyncio.run (lines 832-853)
StartLookup(B) ==
    /\ pc \in {"idle", "done"}
    /\ cas_numbers' = B
    /\ from_dump' = FromDump(B)
    /\ LET r1 == RemainingAfterDump(B) IN
       IF r1 = {}
       THEN /\ cache' = EmptyMap /\ from_cache' = EmptyMap /\ cacheLookups' = {}
            /\ NoNetwork
            /\ results' = _format_results(FromDump(B))
            /\ pc' = "done"
       ELSE IF ~CacheReadable
       THEN /\ cache' = EmptyMap /\ from_cache' = EmptyMap /\ cacheLookups' = r1
            /\ NoNetwork
            /\ results' = EmptyMap
            /\ pc' = "crashed"
       ELSE LET c == load_cache
                r2 == RemainingAfterCache(r1, c) IN
            /\ cache' = c
            /\ from_cache' = FromCache(r1, c)
            /\ cacheLookups' = r1
            /\ IF r2 = {}
               THEN /\ NoNetwork
                    /\ results' = _format_results(Merge(FromDump(B), FromCache(r1, c)))
                    /\ pc' = "done"
               ELSE /\ ctsSt' = [k \in r2 |-> "waiting"]
                    /\ ctsResp' = EmptyMap /\ cts_results' = EmptyMap
                    /\ apiSt' = EmptyMap /\ apiResp' = EmptyMap
                    /\ pubchem_results' = EmptyMap
                    /\ collected' = 0 /\ collPc' = "await"
                    /\ sawFull' = [cts |-> FALSE, api |-> FALSE]
                    /\ results' = EmptyMap
                    /\ pc' = "cts"
    /\ UNCHANGED <<diskVars, syncVars, toolVars>>

\* a CTS task enters "async with semaphore" and sends its request
CtsAcquire(k) ==
    /\ pc = "cts"
    /\ k \in DOMAIN ctsSt /\ ctsSt[k] = "waiting"
    /\ InFlight(ctsSt) < CtsCap
    /\ ctsSt' = [ctsSt EXCEPT ![k] = "inflight"]
    /\ sawFull' = [sawFull EXCEPT !.cts = @ \/ InFlight(ctsSt') >= CtsCap]
    /\ UNCHANGED <<pc, cas_numbers, from_dump, cache, from_cache, cacheLookups,
                   ctsResp, cts_results, apiSt, apiResp, pubchem_results,
                   collected, collPc, results, diskVars, syncVars, toolVars>>

\* the response arrives; the task returns (cas, cid), releases the semaphore,
\* and the as_completed loop stores results[cas] = cid
CtsComplete(k, r) ==
    /\ pc = "cts"
    /\ k \in DOMAIN ctsSt /\ ctsSt[k] = "inflight"
    /\ r \in ctsNet[k]
    /\ ctsSt' = [ctsSt EXCEPT ![k] = "done"]
    /\ ctsResp' = (k :> r) @@ ctsResp
    /\ IF fetch_single_cas_cts(r) = Raised
       THEN pc' = "crashed" /\ UNCHANGED cts_results
       ELSE /\ cts_results' = (k :> fetch_single_cas_cts(r)) @@ cts_results
            /\ UNCHANGED pc
    /\ UNCHANGED <<cas_numbers, from_dump, cache, from_cache, cacheLookups,
                   apiSt, apiResp, pubchem_results, collected, collPc, sawFull,
                   results, diskVars, syncVars, toolVars>>

\* lookup_via_cts_async returned: lines 805-813, and lines 815, 856-868 when
\* nothing is left for the fallback
CtsGather ==
    /\ pc = "cts"
    /\ AllDone(ctsSt)
    /\ IF StillMissing = {}
       THEN /\ UNCHANGED <<apiSt, apiResp>>
            /\ FinishLookup(FoundInCts)
       ELSE /\ apiSt' = [k \in StillMissing |-> "waiting"]
            /\ pc' = "api"
            /\ UNCHANGED <<apiResp, cacheFile, cacheText, errCached, results>>
    /\ UNCHANGED <<dump, ctsNet, apiNet, cas_numbers, from_dump, cache, from_cache,
                   cacheLookups, ctsSt, ctsResp, cts_results, pubchem_results,
                   collected, collPc, sawFull, syncVars, toolVars>>

\* the request is sent without taking the semaphore
ApiAcquire_NoSemaphore(k) ==
    /\ pc = "api"
    /\ k \in DOMAIN apiSt /\ apiSt[k] = "waiting"
    /\ apiSt' = [apiSt EXCEPT ![k] = "inflight"]
    /\ sawFull' = [sawFull EXCEPT !.api = @ \/ InFlight(apiSt') >= ApiCap]
    /\ UNCHANGED <<pc, cas_numbers, from_dump, cache, from_cache, cacheLookups,
                   ctsSt, ctsResp, cts_results, apiResp, pubchem_results,
                   collected, collPc, results, diskVars, syncVars, toolVars>>

\* a fallback task enters "async with semaphore" and sends its request
ApiAcquire(k) ==
    /\ pc = "api"
    /\ k \in DOMAIN apiSt /\ apiSt[k] = "waiting"
    /\ InFlight(apiSt) < ApiCap
    /\ apiSt' = [apiSt EXCEPT ![k] = "inflight"]
    /\ sawFull' = [sawFull EXCEPT !.api = @ \/ InFlight(apiSt') >= ApiCap]
    /\ UNCHANGED <<pc, cas_numbers, from_dump, cache, from_cache, cacheLookups,
                   ctsSt, ctsResp, cts_results, apiResp, pubchem_results,
                   collected, collPc, results, diskVars, syncVars, toolVars>>

\* the n-th result to arrive is stored under the n-th identifier submitted
ApiComplete_ByPosition(k, r) ==
    /\ pc = "api"
    /\ k \in DOMAIN apiSt /\ apiSt[k] = "inflight"
    /\ r \in apiNet[k]
    /\ apiSt' = [apiSt EXCEPT ![k] = "done"]
    /\ apiResp' = (k :> r) @@ apiResp
    /\ LET n == Cardinality(DOMAIN pubchem_results) + 1
           key == CHOOSE j \in DOMAIN apiSt :
                      Cardinality({i \in DOMAIN apiSt : i <= j}) = n
       IN pubchem_results' = (key :> fetch_single_cas_async(r)) @@ pubchem_results
    /\ UNCHANGED <<pc, cas_numbers, from_dump, cache, from_cache, cacheLookups,
                   ctsSt, ctsResp, cts_results, collected, collPc, sawFull,
                   results, diskVars, syncVars, toolVars>>

\* the response arrives; the task returns (cas, cid) and releases the semaphore
ApiComplete(k, r) ==
    /\ pc = "api"
    /\ k \in DOMAIN apiSt /\ apiSt[k] = "inflight"
    /\ r \in apiNet[k]
    /\ apiSt' = [apiSt EXCEPT ![k] = "done"]
    /\ apiResp' = (k :> r) @@ apiResp
    /\ IF fetch_single_cas_async(r) = Raised
       THEN pc' = "crashed" /\ UNCHANGED pubchem_results
       ELSE /\ pubchem_results' = (k :> fetch_single_cas_async(r)) @@ pubchem_results
            /\ UNCHANGED pc
    /\ UNCHANGED <<cas_numbers, from_dump, cache, from_cache, cacheLookups,
                   ctsSt, ctsResp, cts_results, collected, collPc, sawFull,
                   results, diskVars, syncVars, toolVars>>

\* the as_completed loop of lookup_pubchem_async takes one finished task
\* (lines 784-786) and goes to sleep
ApiCollect ==
    /\ pc = "api"
    /\ collPc = "await"
    /\ collected < Cardinality({k \in DOMAIN apiSt : apiSt[k] = "done"})
    /\ collected' = collected + 1
    /\ collPc' = "sleep"
    /\ UNCHANGED <<pc, cas_numbers, from_dump, cache, from_cache, cacheLookups,
                   ctsSt, ctsResp, cts_results, apiSt, apiResp, pubchem_results,
                   sawFull, results, diskVars, syncVars, toolVars>>

\* asyncio.sleep(0.2) is over (line 787)
ApiSleep ==
    /\ pc = "api"
    /\ collPc = "sleep"
    /\ collPc' = "await"
    /\ UNCHANGED <<pc, cas_numbers, from_dump, cache, from_cache, cacheLookups,
                   ctsSt, ctsResp, cts_results, apiSt, apiResp, pubchem_results,
                   collected, sawFull, results, diskVars, syncVars, toolVars>>

\* lookup_pubchem_async returned: lines 815, 856-868
ApiFinish ==
    /\ pc = "api"
    /\ collPc = "await"
    /\ collected = Cardinality(DOMAIN apiSt)
    /\ UNCHANGED apiResp
    /\ FinishLookup(Merge(FoundInCts, pubchem_results))
    /\ UNCHANGED <<dump, ctsNet, apiNet, cas_numbers, from_dump, cache, from_cache,
                   cacheLookups, ctsSt, ctsResp, cts_results, apiSt, pubchem_results,
                   collected, collPc, sawFull, syncVars, toolVars>>

\* the process is started again; load_pubchem_dump reads whatever dump file
\* is installed then, cache.json is kept
Restart(d) ==
    /\ pc \in {"idle", "done"}
    /\ dump' = d
    /\ pc' = "idle"
    /\ cas_numbers' = {} /\ from_dump' = EmptyMap /\ cache' = EmptyMap
    /\ from_cache' = EmptyMap /\ cacheLookups' = {}
    /\ NoNetwork
    /\ results' = EmptyMap
    /\ UNCHANGED <<cacheFile, cacheText, errCached, ctsNet, apiNet, syncVars, toolVars>>

SyncIdle ==
    /\ s_list = <<>> /\ s_i = 0 /\ s_pc = "off"
    /\ s_reqs = <<>> /\ s_log = <<>> /\ s_results = EmptyMap

NoRow == [ok |-> FALSE, cas |-> <<>>]

CasIdle ==
    /\ v_cas = <<>> /\ v_pc = "off" /\ v_valid = FALSE
    /\ n_once = NoRow /\ n_twice = NoRow
    /\ e_column = <<>> /\ e_pc = "off"
    /\ valid_cas = <<>> /\ seen = {} /\ invalid_count = 0

NoKey == 0
NoRet == [error |-> "", cache_key |-> NoKey, search_name |-> "",
          pubchem_url |-> NoKey, filter_id |-> NoKey, match_count |-> 0 - 1]
NoCall == [operation |-> "", combine |-> "none", deref |-> "none",
           path |-> "none", computed |-> FALSE, list_size |-> 0 - 1, cids |-> {}]

CombineIdle ==
    /\ our_cids = {} /\ user_set = {}
    /\ filter_results = <<>> /\ app_searches = {}
    /\ c_calls = 0 /\ c_ret = NoRet /\ c_last = NoCall /\ c_by = EmptyMap

StoreIdle == f_clock = 0 /\ f_toggles = 0 /\ f_deletes = 0

NoListCall == [fn |-> "none", key |-> NoKey]

ListsIdle == stale_searches = {} /\ l_calls = 0 /\ l_last = NoListCall

NoModes == [firefox |-> "off", chrome |-> "off"]
NoHistory == [raised |-> FALSE, entries |-> <<>>]
NoView == [raised |-> FALSE, history |-> <<>>, all_history |-> <<>>]

HistoryIdle ==
    /\ firefox_store = <<>> /\ chrome_store = <<>>
    /\ h_pc = "off" /\ h_modes = NoModes /\ h_out = NoHistory
    /\ app_search_metadata = <<>> /\ h_view = NoView

NoResult == [error |-> FALSE, repaired_entries |-> <<>>, failed_indices |-> <<>>]
NoPending == [error |-> TRUE, repaired_entries |-> <<>>, failed_indices |-> <<>>]
NoApply == [error |-> FALSE, applied |-> 0 - 1, total_pending |-> 0 - 1]

RepairIdle ==
    /\ rug_rows = <<>> /\ cid_cache = [exists |-> FALSE, results |-> EmptyMap]
    /\ pending_repairs = NoPending
    /\ r_status = "idle" /\ r_pc = "off" /\ r_result = NoResult
    /\ r_runs = 0 /\ r_applies = 0 /\ r_applied = NoApply

\* start calls followed per background task
MaxStarts == 3
StartIds == 1..MaxStarts
Tasks == {"repair", "info"}

\* a start call not made yet
NoStart == [state |-> "unused", thread |-> "none", force |-> FALSE]

TaskIdle ==
    /\ t_status = [task \in Tasks |-> "idle"]
    /\ t_call = [task \in Tasks |-> [id \in StartIds |-> NoStart]]
    /\ t_force = FALSE

\* nothing returned yet; real_cas 0 stands for None
NoRepairMatch == [called |-> FALSE, cid |-> NoCid, real_cas |-> 0]

SearchIdle == dump_lines = <<>> /\ dump_load = "ok" /\ repair_match = NoRepairMatch

ExtraIdle == TaskIdle /\ SearchIdle

MoreIdle == StoreIdle /\ ListsIdle /\ HistoryIdle /\ RepairIdle /\ ExtraIdle

ToolsIdle == CasIdle /\ CombineIdle /\ MoreIdle

LookupIdle ==
    /\ pc = "idle"
    /\ cas_numbers = {} /\ from_dump = EmptyMap /\ cache = EmptyMap
    /\ from_cache = EmptyMap /\ cacheLookups = {}
    /\ ctsSt = EmptyMap /\ ctsResp = EmptyMap /\ cts_results = EmptyMap
    /\ apiSt = EmptyMap /\ apiResp = EmptyMap /\ pubchem_results = EmptyMap
    /\ collected = 0 /\ collPc = "await"
    /\ sawFull = [cts |-> FALSE, api |-> FALSE]
    /\ results = EmptyMap

Init ==
    /\ dump \in PartialMaps(Ids, Cids)
    /\ cacheFile = EmptyMap /\ cacheText = "json"
    /\ errCached = {}
    /\ ctsNet = [k \in Ids |-> CtsResponses]
    /\ apiNet = [k \in Ids |-> ApiResponses]
    /\ LookupIdle
    /\ SyncIdle
    /\ ToolsIdle

Next ==
    \/ \E B \in SUBSET Ids : StartLookup(B)
    \/ \E k \in Ids : CtsAcquire(k)
    \/ \E k \in Ids : \E r \in CtsResponses : CtsComplete(k, r)
    \/ CtsGather
    \/ \E k \in Ids : ApiAcquire(k)
    \/ \E k \in Ids : \E r \in ApiResponses : ApiComplete(k, r)
    \/ ApiCollect
    \/ ApiSleep
    \/ ApiFinish
    \/ \E d \in PartialMaps(Ids, Cids) : Restart(d)

Spec == Init /\ [][Next]_vars

\* ===================================================================
\* Properties of lookup_cas_to_cid_optimized, checked under Spec
\* ===================================================================

\* the answer each tier gave in the current call (NoCid: none, or not asked)
DumpAnswer(k) == Get(dump, k)
CacheAnswer(k) == Get(cache, k)
CtsAnswer(k) == Get(cts_results, k)
ApiAnswer(k) == Get(pubchem_results, k)

FirstAnswer(k) ==
    IF DumpAnswer(k) # NoCid THEN DumpAnswer(k)
    ELSE IF CacheAnswer(k) # NoCid THEN CacheAnswer(k)
    ELSE IF CtsAnswer(k) # NoCid THEN CtsAnswer(k)
    ELSE ApiAnswer(k)

CtsRequested == {k \in DOMAIN ctsSt : ctsSt[k] # "waiting"}
ApiRequested == {k \in DOMAIN apiSt : apiSt[k] # "waiting"}

\* C1: when the call has returned, the CID of every identifier of the batch
\* is the first CID answered in tier order dump, cache, CTS, compound API,
\* and the identifier is not_found only if none of the four answered a CID.
C1_FirstSuccessfulTierWins ==
    pc = "done" =>
        \A k \in cas_numbers :
            /\ k \in DOMAIN results
            /\ results[k].cid = FirstAnswer(k)
            /\ results[k].status = "not_found" =>
                    /\ DumpAnswer(k) = NoCid /\ CacheAnswer(k) = NoCid
                    /\ CtsAnswer(k) = NoCid /\ ApiAnswer(k) = NoCid

\* a call whose two identifiers were answered by different tiers, one of
\* them by the compound API after the translation service had no CID
C1_Witness ==
    /\ pc = "done"
    /\ \E k \in cas_numbers :
          /\ CtsAnswer(k) = NoCid /\ k \in DOMAIN ctsResp
          /\ ApiAnswer(k) # NoCid /\ results[k].cid = ApiAnswer(k)
    /\ \E k \in cas_numbers : DumpAnswer(k) # NoCid /\ results[k].cid = DumpAnswer(k)

\* C2 as stated: after the call an identifier that no tier resolved has no
\* entry in the persistent cache.
C2_UnresolvedNotCached ==
    pc = "done" =>
        \A k \in cas_numbers :
            (k \in DOMAIN results /\ results[k].cid = NoCid) => k \notin DOMAIN cacheFile

\* 404, or 200 with an empty CID list
Definitive(r) ==
    r.kind = "http" /\ (r.status = 404 \/ (r.status = 200 /\ r.body = "empty"))

\* C2 amended: an identifier that went through the network tiers and ended
\* with a definitive negative from the compound API has an entry with a null
\* CID in the persistent cache, and a call that finds a null entry answers
\* not_found from it without sending the identifier to either network tier.
C2_UnresolvedCachedAsNull ==
    /\ pc = "done" =>
          \A k \in DOMAIN apiResp :
              Definitive(apiResp[k]) =>
                  /\ results[k].cid = NoCid
                  /\ k \in DOMAIN cacheFile /\ cacheFile[k] = NoCid
    /\ \A k \in DOMAIN from_cache :
          from_cache[k] = NoCid =>
              /\ k \notin DOMAIN ctsSt /\ k \notin DOMAIN apiSt
              /\ pc = "done" => results[k] = [status |-> "not_found", cid |-> NoCid]

\* a later call answered from a null entry that an earlier call wrote
C2_Witness ==
    /\ pc = "done"
    /\ \E k \in DOMAIN from_cache :
          /\ from_cache[k] = NoCid /\ results[k].status = "not_found"
          /\ k \notin errCached

\* C3: no entry of the persistent cache originates from a transport error
\* (timeout, connection failure, status other than 200 and 404).
C3_TransportErrorNeverCached ==
    \A k \in DOMAIN cacheFile : k \notin errCached

\* C4: the returned map has exactly one entry per identifier of the batch,
\* and each entry carries exactly one status, consistent with its CID.
C4_OneEntryPerIdentifier ==
    pc = "done" =>
        /\ DOMAIN results = cas_numbers
        /\ \A k \in DOMAIN results :
              /\ results[k].status \in {"found", "not_found"}
              /\ results[k].status = "found" <=> results[k].cid \in Cids
              /\ results[k].status = "not_found" <=> results[k].cid = NoCid

\* a batch of two: one answered by the translation service, one whose
\* fallback request ended in a transport error
C4_Witness ==
    /\ pc = "done"
    /\ \E j, k \in cas_numbers :
          /\ j # k
          /\ CtsAnswer(j) # NoCid
          /\ k \in DOMAIN apiResp /\ Transient(apiResp[k])

\* C5: an identifier that the dump and the cache file both hold is answered
\* with the dump's CID, and the cache is not looked up for it.
C5_DumpBeatsCache ==
    \A k \in cas_numbers \cap DOMAIN dump \cap DOMAIN cacheFile :
        /\ k \notin cacheLookups
        /\ pc = "done" => (k \in DOMAIN results /\ results[k].cid = dump[k])

\* the dump and the cache file disagree on an identifier of the batch
C5_Witness ==
    /\ pc = "done"
    /\ \E k \in cas_numbers \cap DOMAIN dump \cap DOMAIN cacheFile :
          cacheFile[k] # NoCid /\ cacheFile[k] # dump[k]

\* C6: requests go to the translation service only for identifiers absent
\* from dump and cache, to the compound API only for identifiers for which
\* the translation service returned no CID, and once a tier has run it has
\* been asked for exactly those.
C6_TierInputs ==
    /\ CtsRequested \subseteq cas_numbers \ (DOMAIN dump \cup DOMAIN cache)
    /\ ApiRequested \subseteq {k \in CtsRequested : k \in DOMAIN cts_results /\ cts_results[k] = NoCid}
    /\ \A k \in CtsRequested \cup ApiRequested : DumpAnswer(k) = NoCid /\ CacheAnswer(k) = NoCid
    /\ \A k \in ApiRequested : CtsAnswer(k) = NoCid
    /\ (pc = "api" \/ (pc = "done" /\ cacheLookups # {})) =>
          CtsRequested = cas_numbers \ (DOMAIN dump \cup DOMAIN cache)
    /\ (pc = "done" /\ cacheLookups # {}) =>
          ApiRequested = {k \in CtsRequested : cts_results[k] = NoCid}

\* one identifier stopped at the translation service, another went on
C6_Witness ==
    /\ pc = "done"
    /\ ApiRequested # {}
    /\ CtsRequested # ApiRequested
    /\ cas_numbers \cap DOMAIN dump = {}

CtsFailed(r) == r.kind # "http" \/ r.status # 200 \/ r.body # "cids"

\* C9: a translation-service call that fails in any way returns no CID
\* without raising, and its identifier is handed to the compound-API tier.
C9_CtsFailureIsNoCid ==
    /\ pc # "crashed"
    /\ \A k \in DOMAIN ctsResp :
          CtsFailed(ctsResp[k]) =>
              /\ k \in DOMAIN cts_results /\ cts_results[k] = NoCid
              /\ pc \in {"api", "done"} => k \in DOMAIN apiSt

\* a call in which the translation service timed out for one identifier and
\* sent an undecodable payload for another, both then asked of the compound API
C9_Witness ==
    /\ pc = "done"
    /\ \E j, k \in DOMAIN ctsResp :
          /\ ctsResp[j] = Raises("timeout")
          /\ ctsResp[k] = Http200("malformed")
          /\ apiSt[j] = "done" /\ apiSt[k] = "done"

\* ===================================================================
\* SpecFanOut: one call with a batch larger than both semaphores
\* ===================================================================
FanIds == 1..FanOutCts

\* the state lookup_cas_to_cid_optimized(1..FanOutCts) reaches at asyncio.run
\* when the dump file is missing and there is no cache file.  The translation
\* service times out for the identifiers up to FanOutApi and answers a CID
\* for the others; the compound API answers 404.
InitFanOut ==
    /\ dump = EmptyMap
    /\ cacheFile = EmptyMap /\ cacheText = "json"
    /\ errCached = {}
    /\ ctsNet = [k \in FanIds |-> IF k <= FanOutApi THEN {Raises("timeout")} ELSE {Ok(1)}]
    /\ apiNet = [k \in FanIds |-> {HttpStatus(404)}]
    /\ pc = "cts"
    /\ cas_numbers = FanIds
    /\ from_dump = EmptyMap /\ cache = EmptyMap /\ from_cache = EmptyMap
    /\ cacheLookups = FanIds
    /\ ctsSt = [k \in FanIds |-> "waiting"]
    /\ ctsResp = EmptyMap /\ cts_results = EmptyMap
    /\ apiSt = EmptyMap /\ apiResp = EmptyMap /\ pubchem_results = EmptyMap
    /\ collected = 0 /\ collPc = "await"
    /\ sawFull = [cts |-> FALSE, api |-> FALSE]
    /\ results = EmptyMap
    /\ SyncIdle
    /\ ToolsIdle

NextFanOut ==
    \/ \E k \in FanIds : CtsAcquire(k)
    \/ \E k \in FanIds : \E r \in CtsResponses : CtsComplete(k, r)
    \/ CtsGather
    \/ \E k \in FanIds : ApiAcquire(k)
    \/ \E k \in FanIds : \E r \in ApiResponses : ApiComplete(k, r)
    \/ ApiCollect
    \/ ApiSleep
    \/ ApiFinish

SpecFanOut == InitFanOut /\ [][NextFanOut]_vars

\* C10: at most 10 translation-service requests and at most 5 compound-API
\* requests are in flight, in every state of a resolution batch.
C10_BoundedInFlight ==
    /\ InFlight(ctsSt) <= 10
    /\ InFlight(apiSt) <= 5

\* both semaphores were exhausted: ten translation requests have been in
\* flight at once, and now five fallback requests are while another waits
C10_Witness ==
    /\ pc = "api"
    /\ sawFull.cts
    /\ InFlight(apiSt) = 5
    /\ \E k \in DOMAIN apiSt : apiSt[k] = "waiting"

\* ===================================================================
\* SpecSync: lookup_cas_in_pubchem, the synchronous loop
\* ===================================================================
SyncResponses ==
    {Ok(c) : c \in Cids}
        \cup {Http200("empty"), HttpStatus(404), HttpStatus(429), HttpStatus(500),
              Raises("timeout"), Raises("connerr")}

\* f"error_{response.status_code}" and f"error_{type(e).__name__}"
ErrorStatus(r) ==
    IF r.kind = "timeout" THEN "error_Timeout"
    ELSE IF r.kind = "connerr" THEN "error_ConnectionError"
    ELSE IF r.status = 404 THEN "error_404"
    ELSE IF r.status = 429 THEN "error_429"
    ELSE "error_500"

Result(st, c) == [status |-> st, cid |-> c]

\* lines 1176-1181 and 1193-1198: a 200 response
On200(r) ==
    IF r.body = "cids" THEN Result("found", r.cid) ELSE Result("no_cid", NoCid)

\* a transport exception is recorded as a plain negative
FirstResult_ExcAsNotFound(r) ==
    IF r.kind # "http" THEN Result("not_found", NoCid)
    ELSE IF r.status = 200 THEN On200(r)
    ELSE IF r.status = 404 THEN Result("not_found", NoCid)
    ELSE Result(ErrorStatus(r), NoCid)

\* what the first response of an iteration stores in results[cas]
\* (lines 1172-1184, 1201-1205); a 429 stores nothing yet
FirstResult(r) ==
    IF r.kind # "http" THEN Result(ErrorStatus(r), NoCid)
    ELSE IF r.status = 200 THEN On200(r)
    ELSE IF r.status = 404 THEN Result("not_found", NoCid)
    ELSE Result(ErrorStatus(r), NoCid)

\* what the response to the retry stores (lines 1191-1200, 1204-1205)
RetryResult(r) ==
    IF r.kind # "http" THEN Result(ErrorStatus(r), NoCid)
    ELSE IF r.status = 200 THEN On200(r)
    ELSE Result(ErrorStatus(r), NoCid)

DistinctSeqs(S) ==
    UNION {{q \in [1..n -> S] : \A a, b \in 1..n : a # b => q[a] # q[b]} :
              n \in 0..Cardinality(S)}

InitSync ==
    /\ dump = EmptyMap /\ cacheFile = EmptyMap /\ cacheText = "json" /\ errCached = {}
    /\ ctsNet = [k \in Ids |-> CtsResponses]
    /\ apiNet = [k \in Ids |-> ApiResponses]
    /\ LookupIdle
    /\ ToolsIdle
    /\ s_list \in DistinctSeqs(Ids)
    /\ s_i = 0
    /\ s_pc = "loop"
    /\ s_reqs = [p \in 1..Len(s_list) |-> 0]
    /\ s_log = [p \in 1..Len(s_list) |-> <<>>]
    /\ s_results = EmptyMap

\* the for loop takes the next identifier and sends the request (line 1173)
SyncRequest ==
    /\ s_pc = "loop"
    /\ s_i < Len(s_list)
    /\ s_i' = s_i + 1
    /\ s_reqs' = [s_reqs EXCEPT ![s_i + 1] = @ + 1]
    /\ s_pc' = "wait1"
    /\ UNCHANGED <<s_list, s_log, s_results, diskVars, lookupVars, toolVars>>

\* the first response or exception (lines 1175-1189, 1201-1205)
SyncFirstResponse(r) ==
    /\ s_pc = "wait1"
    /\ s_log' = [s_log EXCEPT ![s_i] = Append(@, r)]
    /\ IF r.kind = "http" /\ r.status = 429
       THEN s_pc' = "backoff" /\ UNCHANGED s_results
       ELSE /\ s_results' = (s_list[s_i] :> FirstResult(r)) @@ s_results
            /\ s_pc' = "sleep"
    /\ UNCHANGED <<s_list, s_i, s_reqs, diskVars, lookupVars, toolVars>>

\* a second 429 is backed off and retried once more
SyncRetryResponse_RetriesTwice(r) ==
    /\ s_pc = "wait2"
    /\ s_log' = [s_log EXCEPT ![s_i] = Append(@, r)]
    /\ IF r.kind = "http" /\ r.status = 429 /\ s_reqs[s_i] < 3
       THEN s_pc' = "backoff" /\ UNCHANGED s_results
       ELSE /\ s_results' = (s_list[s_i] :> RetryResult(r)) @@ s_results
            /\ s_pc' = "sleep"
    /\ UNCHANGED <<s_list, s_i, s_reqs, diskVars, lookupVars, toolVars>>

\* time.sleep(5) is over and the request is sent once more (lines 1189-1191)
SyncRetry ==
    /\ s_pc = "backoff"
    /\ s_reqs' = [s_reqs EXCEPT ![s_i] = @ + 1]
    /\ s_pc' = "wait2"
    /\ UNCHANGED <<s_list, s_i, s_log, s_results, diskVars, lookupVars, toolVars>>

\* the response or exception of the retry (lines 1192-1200, 1204-1205)
SyncRetryResponse(r) ==
    /\ s_pc = "wait2"
    /\ s_log' = [s_log EXCEPT ![s_i] = Append(@, r)]
    /\ s_results' = (s_list[s_i] :> RetryResult(r)) @@ s_results
    /\ s_pc' = "sleep"
    /\ UNCHANGED <<s_list, s_i, s_reqs, diskVars, lookupVars, toolVars>>

\* time.sleep(RATE_LIMIT_DELAY) is over (line 1208)
SyncSleep ==
    /\ s_pc = "sleep"
    /\ s_pc' = "loop"
    /\ UNCHANGED <<s_list, s_i, s_reqs, s_log, s_results, diskVars, lookupVars, toolVars>>

\* the loop is exhausted and the function returns results (line 1220)
SyncReturn ==
    /\ s_pc = "loop"
    /\ s_i = Len(s_list)
    /\ s_pc' = "returned"
    /\ UNCHANGED <<s_list, s_i, s_reqs, s_log, s_results, diskVars, lookupVars, toolVars>>

NextSync ==
    \/ SyncRequest
    \/ \E r \in SyncResponses : SyncFirstResponse(r)
    \/ SyncRetry
    \/ \E r \in SyncResponses : SyncRetryResponse(r)
    \/ SyncSleep
    \/ SyncReturn

\* every request carries timeout=30 and both sleeps are finite, so a step
\* that is possible is eventually taken
SpecSync == InitSync /\ [][NextSync]_vars /\ WF_vars(NextSync)

IsErrorStatus(st) ==
    st \in {"error_404", "error_429", "error_500", "error_Timeout", "error_ConnectionError"}

RetryOnce ==
    \A p \in 1..Len(s_list) :
        /\ s_reqs[p] <= 2
        /\ Len(s_log[p]) <= s_reqs[p]
        /\ s_reqs[p] = 2 => (s_log[p][1].kind = "http" /\ s_log[p][1].status = 429)
        /\ (Len(s_log[p]) = 2 /\ ~(s_log[p][2].kind = "http" /\ s_log[p][2].status = 200)) =>
              /\ s_list[p] \in DOMAIN s_results
              /\ IsErrorStatus(s_results[s_list[p]].status)
              /\ s_results[s_list[p]].cid = NoCid
              /\ p = s_i => s_pc \in {"sleep", "loop", "returned"}

\* C7: at most two requests per identifier, the second only after a 429 on
\* the first; a retry that does not get a 200 records an error status and the
\* loop moves on; the call returns.
C7_RetryOnce == []RetryOnce /\ <>(s_pc = "returned")

\* the retry of the first identifier was rate-limited again, the loop went
\* on to the second identifier and returned
C7_Witness ==
    /\ s_pc = "returned"
    /\ Len(s_list) >= 2
    /\ Len(s_log[1]) = 2 /\ s_log[1][2] = HttpStatus(429)
    /\ s_results[s_list[1]].status = "error_429"

\* C8: one result per input identifier for every outcome, and an identifier
\* whose request raised a transport error has a status that is neither
\* found nor not_found, with no CID.
C8_OneResultPerIdentifier ==
    s_pc = "returned" =>
        /\ DOMAIN s_results = {s_list[p] : p \in 1..Len(s_list)}
        /\ \A p \in 1..Len(s_list) :
              /\ Len(s_log[p]) >= 1
              /\ s_log[p][Len(s_log[p])].kind # "http" =>
                    /\ s_results[s_list[p]].status \notin {"found", "not_found"}
                    /\ s_results[s_list[p]].cid = NoCid

\* a returned batch with a timed-out identifier and a 404 identifier
C8_Witness ==
    /\ s_pc = "returned"
    /\ \E p, q \in 1..Len(s_list) :
          /\ s_log[p] = <<Raises("timeout")>>
          /\ s_log[q] = <<HttpStatus(404)>>
          /\ s_results[s_list[q]].status = "not_found"

\* ===================================================================
\* The delay and the collection order of the fallback tier
\* ===================================================================
ApiDoneCount == Cardinality({k \in DOMAIN apiSt : apiSt[k] = "done"})

\* asyncio.sleep(0.2) calls of lookup_pubchem_async that are over
DelaysTaken == IF collPc = "sleep" THEN collected - 1 ELSE collected

CtsResponseCid(k) == IF k \in DOMAIN ctsResp THEN fetch_single_cas_cts(ctsResp[k]) ELSE NoCid
ApiResponseCid(k) == IF k \in DOMAIN apiResp THEN fetch_single_cas_async(apiResp[k]) ELSE NoCid

ExpectedCid(k) ==
    IF k \in DOMAIN dump THEN dump[k]
    ELSE IF k \in DOMAIN cache THEN cache[k]
    ELSE IF CtsResponseCid(k) # NoCid THEN CtsResponseCid(k)
    ELSE ApiResponseCid(k)

\* C12: the returned map is a function of the batch, the dump, the cache and
\* the response each identifier got; the completion order plays no part.
C12_OrderIndependent ==
    pc = "done" =>
        /\ DOMAIN results = cas_numbers
        /\ \A k \in cas_numbers :
              results[k] = IF ExpectedCid(k) # NoCid
                           THEN [status |-> "found", cid |-> ExpectedCid(k)]
                           ELSE [status |-> "not_found", cid |-> NoCid]

\* two identifiers were in both network tiers together and got different
\* answers from the compound API
C12_Witness ==
    /\ pc = "done"
    /\ \E j, k \in DOMAIN apiResp :
          /\ j # k
          /\ apiResp[j] # apiResp[k]
          /\ ctsResp[j] # ctsResp[k]
          /\ results[j].status = "found" /\ results[k].status = "not_found"

\* ===================================================================
\* Identifier validation and extraction (validate_cas_number,
\* extract_cas_numbers).  A string is a sequence of one-character strings.
\* ===================================================================
MaxPad == 2
MaxRows == 3

Digit == {"0", "1", "2", "3", "4", "5", "6", "7", "8", "9"}
Whitespace == {" ", "\t", "\n", "\r"}
Placeholder == <<"0", "0", "-", "0", "0", "-", "0">>

\* \d{1,7}-\d{2}-\d over the whole of s
PatternBody(s) ==
    LET n == Len(s) IN
    /\ n >= 6 /\ n <= 12
    /\ \A i \in 1..(n - 5) : s[i] \in Digit
    /\ s[n - 4] = "-"
    /\ s[n - 3] \in Digit /\ s[n - 2] \in Digit
    /\ s[n - 1] = "-"
    /\ s[n] \in Digit

\* CAS_PATTERN.match(s): ^ at the start, $ at the end or before one final
\* newline
CAS_PATTERN(s) ==
    \/ PatternBody(s)
    \/ /\ Len(s) >= 1
       /\ s[Len(s)] = "\n"
       /\ PatternBody(SubSeq(s, 1, Len(s) - 1))

\* the validator without the placeholder test
validate_cas_number_PatternOnly(cas) ==
    IF cas = <<>> THEN FALSE ELSE CAS_PATTERN(cas)

validate_cas_number(cas) ==
    IF cas = <<>> \/ cas = Placeholder THEN FALSE ELSE CAS_PATTERN(cas)

RECURSIVE lstrip(_)
lstrip(s) == IF s # <<>> /\ Head(s) \in Whitespace THEN lstrip(Tail(s)) ELSE s

RECURSIVE rstrip(_)
rstrip(s) ==
    IF s # <<>> /\ s[Len(s)] \in Whitespace THEN rstrip(SubSeq(s, 1, Len(s) - 1)) ELSE s

\* a trim that takes at most one whitespace character off each end
strip_OneEach(s) ==
    LET l == IF s # <<>> /\ Head(s) \in Whitespace THEN Tail(s) ELSE s IN
    IF l # <<>> /\ l[Len(l)] \in Whitespace THEN SubSeq(l, 1, Len(l) - 1) ELSE l

\* str.strip()
strip(s) == rstrip(lstrip(s))

\* one pass of the loop body on one row: trim, then validate
NormalizeRow(raw) ==
    LET cas == strip(raw) IN
    IF validate_cas_number(cas) THEN [ok |-> TRUE, cas |-> cas] ELSE NoRow

\* the loop body with the membership test left out
ExtractStep_NoSeen(acc, raw) ==
    LET cas == strip(raw) IN
    IF validate_cas_number(cas)
    THEN [valid_cas |-> Append(acc.valid_cas, cas),
          seen |-> acc.seen \cup {cas},
          invalid_count |-> acc.invalid_count]
    ELSE [acc EXCEPT !.invalid_count = @ + 1]

\* the loop body of extract_cas_numbers
ExtractStep(acc, raw) ==
    LET cas == strip(raw) IN
    IF validate_cas_number(cas)
    THEN IF cas \notin acc.seen
         THEN [valid_cas |-> Append(acc.valid_cas, cas),
               seen |-> acc.seen \cup {cas},
               invalid_count |-> acc.invalid_count]
         ELSE acc
    ELSE [acc EXCEPT !.invalid_count = @ + 1]

RECURSIVE ExtractLoop(_, _)
ExtractLoop(rows, acc) ==
    IF rows = <<>> THEN acc ELSE ExtractLoop(Tail(rows), ExtractStep(acc, Head(rows)))

extract_cas_numbers(column) ==
    ExtractLoop(column, [valid_cas |-> <<>>, seen |-> {}, invalid_count |-> 0])

\* --- inputs --------------------------------------------------------
Dash == <<"-">>
Firsts == {<<"0">>, <<"0", "0">>, <<"6", "4">>,
           <<"1", "2", "3", "4", "5", "6", "7">>,
           <<"1", "2", "3", "4", "5", "6", "7", "8">>}
Mids == {<<"0", "0">>, <<"1", "7">>, <<"1">>}
Lasts == {<<"0">>, <<"5">>}

\* registry-number shaped strings, right and wrong, and what astype(str)
\* makes of other cells
Cores ==
    {f \o Dash \o m \o Dash \o l : f \in Firsts, m \in Mids, l \in Lasts}
        \cup {<<"1", "2", "3", "4", "5">>, <<>>, <<"n", "a", "n">>,
              <<"6", "4", "-", "1", "7", "-", "5", "5">>}

Pads == UNION {[1..n -> {" ", "\n"}] : n \in 0..MaxPad}
StrPool == {l \o c \o r : l \in Pads, c \in Cores, r \in Pads}

\* the cells of a column: the shorter strings, bare and padded
RowCores == {c \in Cores : Len(c) <= 6}
                \cup {<<"6", "4", "-", "1", "7", "-", "5">>, Placeholder}
RowPool == RowCores \cup {<<" ">> \o c \o <<" ">> : c \in RowCores}

\* --- validate_cas_number and the trim-and-validate pass -------------
InitValidate ==
    /\ dump = EmptyMap /\ cacheFile = EmptyMap /\ cacheText = "json" /\ errCached = {}
    /\ ctsNet = [k \in Ids |-> CtsResponses]
    /\ apiNet = [k \in Ids |-> ApiResponses]
    /\ LookupIdle
    /\ SyncIdle
    /\ v_cas \in StrPool
    /\ v_pc = "input" /\ v_valid = FALSE
    /\ n_once = NoRow /\ n_twice = NoRow
    /\ e_column = <<>> /\ e_pc = "off"
    /\ valid_cas = <<>> /\ seen = {} /\ invalid_count = 0
    /\ CombineIdle
    /\ MoreIdle

Validate ==
    /\ v_pc = "input"
    /\ v_valid' = validate_cas_number(v_cas)
    /\ v_pc' = "validated"
    /\ UNCHANGED <<v_cas, n_once, n_twice, e_column, e_pc, valid_cas, seen,
                   invalid_count, diskVars, lookupVars, syncVars, combVars, moreVars>>

NormalizeOnce ==
    /\ v_pc = "validated"
    /\ n_once' = NormalizeRow(v_cas)
    /\ v_pc' = "once"
    /\ UNCHANGED <<v_cas, v_valid, n_twice, e_column, e_pc, valid_cas, seen,
                   invalid_count, diskVars, lookupVars, syncVars, combVars, moreVars>>

\* an identifier that came out of the pass is put through it again
NormalizeTwice ==
    /\ v_pc = "once"
    /\ n_once.ok
    /\ n_twice' = NormalizeRow(n_once.cas)
    /\ v_pc' = "twice"
    /\ UNCHANGED <<v_cas, v_valid, n_once, e_column, e_pc, valid_cas, seen,
                   invalid_count, diskVars, lookupVars, syncVars, combVars, moreVars>>

NextValidate == Validate \/ NormalizeOnce \/ NormalizeTwice

SpecValidate == InitValidate /\ [][NextValidate]_vars

\* --- extract_cas_numbers -------------------------------------------
InitExtract ==
    /\ dump = EmptyMap /\ cacheFile = EmptyMap /\ cacheText = "json" /\ errCached = {}
    /\ ctsNet = [k \in Ids |-> CtsResponses]
    /\ apiNet = [k \in Ids |-> ApiResponses]
    /\ LookupIdle
    /\ SyncIdle
    /\ v_cas = <<>> /\ v_pc = "off" /\ v_valid = FALSE
    /\ n_once = NoRow /\ n_twice = NoRow
    /\ \E n \in 0..MaxRows : e_column \in [1..n -> RowPool]
    /\ e_pc = "input"
    /\ valid_cas = <<>> /\ seen = {} /\ invalid_count = 0
    /\ CombineIdle
    /\ MoreIdle

Extract ==
    /\ e_pc = "input"
    /\ LET out == extract_cas_numbers(e_column) IN
           /\ valid_cas' = out.valid_cas
           /\ seen' = out.seen
           /\ invalid_count' = out.invalid_count
    /\ e_pc' = "done"
    /\ UNCHANGED <<v_cas, v_pc, v_valid, n_once, n_twice, e_column,
                   diskVars, lookupVars, syncVars, combVars, moreVars>>

NextExtract == Extract

SpecExtract == InitExtract /\ [][NextExtract]_vars

\* --- claims about validation ----------------------------------------
Ethanol == <<"6", "4", "-", "1", "7", "-", "5">>
SingleZeros == <<"0", "-", "0", "0", "-", "0">>
NoDashes == <<"1", "2", "3", "4", "5">>

Validated == v_pc \in {"validated", "once", "twice"}

\* C13 as stated: validation accepts "64-17-5" and rejects "0-00-0" and
\* "12345".
C13_ExamplesAsStated ==
    Validated =>
        /\ v_cas = Ethanol => v_valid
        /\ v_cas = SingleZeros => ~v_valid
        /\ v_cas = NoDashes => ~v_valid

\* C13: validation accepts "64-17-5" and rejects the placeholder "00-00-0"
\* and "12345".
C13_Examples ==
    Validated =>
        /\ v_cas = Ethanol => v_valid
        /\ v_cas = Placeholder => ~v_valid
        /\ v_cas = NoDashes => ~v_valid

C13_Witness == v_pc = "validated" /\ v_cas = Placeholder /\ ~v_valid

\* the registry-number grammar: 1 to 7 digits, dash, 2 digits, dash, 1 digit
RegistryNumber(s) ==
    \E a \in 1..7 :
        /\ Len(s) = a + 5
        /\ s[a + 1] = "-" /\ s[a + 4] = "-"
        /\ \A i \in (1..Len(s)) \ {a + 1, a + 4} : s[i] \in Digit

ValidIdentifier(s) == s # <<>> /\ s # Placeholder /\ RegistryNumber(s)

Trimmed(i) == strip(e_column[i])

FirstRow(s) == CHOOSE i \in DOMAIN e_column :
                   /\ Trimmed(i) = s
                   /\ \A j \in DOMAIN e_column : Trimmed(j) = s => i <= j

\* C14: the list returned by extract_cas_numbers holds exactly the trimmed
\* rows that are valid identifiers, each once, ordered by first occurrence.
C14_DistinctValidInOrder ==
    e_pc = "done" =>
        /\ {valid_cas[i] : i \in DOMAIN valid_cas}
              = {Trimmed(i) : i \in {j \in DOMAIN e_column : ValidIdentifier(Trimmed(j))}}
        /\ \A i, j \in DOMAIN valid_cas : i # j => valid_cas[i] # valid_cas[j]
        /\ \A i, j \in DOMAIN valid_cas :
              i < j => FirstRow(valid_cas[i]) < FirstRow(valid_cas[j])
        /\ \A i \in DOMAIN valid_cas :
              /\ valid_cas[i] # <<>>
              /\ valid_cas[i] # Placeholder
              /\ RegistryNumber(valid_cas[i])

\* a padded identifier, another identifier, and the first one again bare:
\* the copy is dropped and the first-seen order is kept
C14_Witness ==
    /\ e_pc = "done"
    /\ Len(e_column) = 3
    /\ e_column[1] # e_column[3]
    /\ Trimmed(1) = Trimmed(3)
    /\ valid_cas = <<Ethanol, SingleZeros>>

\* C15: an identifier that came out of the trim-and-validate pass comes out
\* of a second pass unchanged, and is accepted by it.
C15_Idempotent ==
    v_pc = "twice" => n_twice.ok /\ n_twice.cas = n_once.cas

C15_Witness ==
    /\ v_pc = "twice"
    /\ v_cas # n_once.cas
    /\ n_once.cas = Ethanol
    /\ n_twice = n_once

\* ===================================================================
\* Combining the local CIDs with a remote search (combine_pubchem)
\* ===================================================================
MaxCombCid == 4
MaxCombines == 2
FilterCap == 10
AppCap == 50

CombCids == 1..MaxCombCid
Operations == {"AND", "OR", "NOT"}
OperationInputs == {"and", "AND", "OR", "NOT", "XOR"}
UserKey == MaxCombines + 1
UserName == "user search"

\* str.upper() on the operations a request can carry
Upper(op) == IF op = "and" THEN "AND" ELSE op

\* upload_cids_to_pubchem_cache: the new handle, or None
upload_cids_to_pubchem_cache(ok, fresh) == IF ok THEN fresh ELSE NoKey

\* the list gateway applies the operation to the two lists in the order of
\* the query: first list, second list, operation
RemoteCombine(first, second, operation) ==
    IF operation = "AND" THEN first \cap second
    ELSE IF operation = "OR" THEN first \cup second
    ELSE first \ second

\* combine_pubchem_cache_keys(key1, key2, operation), given the sets the two
\* keys stand for: None, or the new handle, its ids and the ListSize
combine_pubchem_cache_keys(ok, set1, set2, operation, fresh) ==
    IF ok
    THEN [ok |-> TRUE, key |-> fresh, cids |-> RemoteCombine(set1, set2, operation),
          list_size |-> Cardinality(RemoteCombine(set1, set2, operation))]
    ELSE [ok |-> FALSE, key |-> NoKey, cids |-> {}, list_size |-> 0]

\* fetch_cids_from_listkey: "return cids or None"
fetch_cids_from_listkey(ok, cids) ==
    IF ok /\ cids # {} THEN [ok |-> TRUE, cids |-> cids] ELSE [ok |-> FALSE, cids |-> {}]

\* the local set operation with NOT taken the other way round
LocalCombine_UserMinusLocal(operation, our_cid_set, user_cid_set) ==
    IF operation = "AND" THEN our_cid_set \cap user_cid_set
    ELSE IF operation = "OR" THEN our_cid_set \cup user_cid_set
    ELSE IF operation = "NOT" THEN user_cid_set \ our_cid_set
    ELSE {}

\* the local set operation with AND computed as the union
LocalCombine_AndAsUnion(operation, our_cid_set, user_cid_set) ==
    IF operation = "AND" THEN our_cid_set \cup user_cid_set
    ELSE IF operation = "OR" THEN our_cid_set \cup user_cid_set
    ELSE IF operation = "NOT" THEN our_cid_set \ user_cid_set
    ELSE {}

\* the local set operation of the fallback
LocalCombine(operation, our_cid_set, user_cid_set) ==
    IF operation = "AND" THEN our_cid_set \cap user_cid_set
    ELSE IF operation = "OR" THEN our_cid_set \cup user_cid_set
    ELSE IF operation = "NOT" THEN our_cid_set \ user_cid_set
    ELSE {}

IsSaved(r) == r.saved
IsUnsaved(r) == ~r.saved
FirstN(q, n) == SubSeq(q, 1, IF Len(q) < n THEN Len(q) ELSE n)

\* the cap applied to the whole list, saved entries included
save_filter_result_CapsAll(stored, filter_id, search_name, operation, matching_cids, pubchem_url) ==
    LET inserted == <<[id |-> filter_id,
                       search_name |-> search_name,
                       operation |-> operation,
                       matching_cids |-> matching_cids,
                       match_count |-> Cardinality(matching_cids),
                       pubchem_url |-> pubchem_url,
                       created |-> filter_id,
                       saved |-> FALSE]>> \o stored
    IN FirstN(inserted, FilterCap)

\* save_filter_result: the new file content
save_filter_result(stored, filter_id, search_name, operation, matching_cids, pubchem_url) ==
    LET inserted == <<[id |-> filter_id,
                       search_name |-> search_name,
                       operation |-> operation,
                       matching_cids |-> matching_cids,
                       match_count |-> Cardinality(matching_cids),
                       pubchem_url |-> pubchem_url,
                       created |-> filter_id,
                       saved |-> FALSE]>> \o stored
    IN SelectSeq(inserted, IsSaved) \o FirstN(SelectSeq(inserted, IsUnsaved), FilterCap)

\* list(s)[-cap:] for a set s: what is left when the leading elements, in
\* whatever order the set is listed, are dropped
RECURSIVE Without(_, _)
Without(all, n) ==
    IF n <= 0 THEN {all} ELSE UNION {Without(all \ {d}, n - 1) : d \in all}

LastOfSet(all, cap) == Without(all, Cardinality(all) - cap)

\* the key appended to the list as it is, no set and no cap
save_app_search_NoCap(keys, cache_key) == {keys \cup {cache_key}}

\* save_app_search: the contents the file can have afterwards; the last
\* AppCap elements of a set listed in no particular order
save_app_search(keys, cache_key) ==
    LastOfSet(keys \cup {cache_key}, AppCap)

\* --- the handler ---------------------------------------------------
StaleSearch == [NoRet EXCEPT !.error = "stale_search",
                             !.cache_key = UserKey,
                             !.search_name = UserName]

\* an early error return: nothing is written
Refuse(error, call) ==
    /\ c_ret' = [NoRet EXCEPT !.error = error]
    /\ c_last' = call
    /\ UNCHANGED <<filter_results, app_searches, c_by>>

\* the zero-match case answered without storing anything
StoreEmpty_Skips(call, fresh) ==
    /\ c_ret' = [NoRet EXCEPT !.match_count = 0]
    /\ c_last' = [call EXCEPT !.cids = {}]
    /\ c_by' = (<<call.path, call.operation>> :> {}) @@ c_by
    /\ UNCHANGED <<filter_results, app_searches>>

\* lines 3282-3293: no ids, an empty FilterResult is stored
StoreEmpty(call, fresh) ==
    /\ filter_results' = save_filter_result(filter_results, fresh, UserName,
                                            call.operation, {}, NoKey)
    /\ c_ret' = [NoRet EXCEPT !.filter_id = fresh, !.match_count = 0]
    /\ c_last' = [call EXCEPT !.cids = {}]
    /\ c_by' = (<<call.path, call.operation>> :> {}) @@ c_by
    /\ UNCHANGED app_searches

\* lines 3331-3337: the ids are stored under the combined handle's URL
StoreMatches(call, fresh, matching_cids) ==
    /\ filter_results' = save_filter_result(filter_results, fresh, UserName,
                                            call.operation, matching_cids, fresh)
    /\ c_ret' = [NoRet EXCEPT !.pubchem_url = fresh, !.filter_id = fresh]
    /\ c_last' = [call EXCEPT !.cids = matching_cids]
    /\ c_by' = (<<call.path, call.operation>> :> matching_cids) @@ c_by

\* lines 3238-3239 and 3281-3337 after a remote combine that succeeded
FastPath(operation, combined, fresh, fetchCombined, fetchUserAgain) ==
    LET call == [NoCall EXCEPT !.operation = operation, !.combine = "ok",
                               !.path = "fast", !.list_size = combined.list_size]
        matching_cids == fetch_cids_from_listkey(fetchCombined, combined.cids)
        user_cids == fetch_cids_from_listkey(fetchUserAgain, user_set)
    IN
    IF combined.list_size = 0 \/ combined.key = NoKey
    THEN StoreEmpty(call, fresh)
    ELSE /\ app_searches' \in save_app_search(app_searches, combined.key)
         /\ IF ~matching_cids.ok
            THEN /\ c_ret' = IF ~user_cids.ok THEN StaleSearch
                             ELSE [NoRet EXCEPT !.error = "combine_failed"]
                 /\ c_last' = [call EXCEPT !.deref = IF user_cids.ok THEN "ok" ELSE "fail"]
                 /\ UNCHANGED <<filter_results, c_by>>
            ELSE StoreMatches(call, fresh, matching_cids.cids)

\* the fallback taking a failed dereference for an empty list
Fallback_NoStaleCheck(operation, fresh, fetchUser, uploadCombined) ==
    LET user_cids == fetch_cids_from_listkey(fetchUser, user_set)
        call == [NoCall EXCEPT !.operation = operation, !.combine = "fail",
                               !.deref = IF user_cids.ok THEN "ok" ELSE "fail"]
        result_cids == LocalCombine(operation, our_cids, user_cids.cids)
        local == [call EXCEPT !.path = "fallback", !.computed = TRUE,
                              !.list_size = Cardinality(result_cids)]
        combined_key == upload_cids_to_pubchem_cache(uploadCombined, fresh)
    IN
    IF Cardinality(result_cids) > 0 /\ combined_key = NoKey
    THEN Refuse("upload_combined_failed", [local EXCEPT !.cids = result_cids])
    ELSE IF Cardinality(result_cids) = 0
    THEN StoreEmpty(local, fresh)
    ELSE /\ app_searches' \in save_app_search(app_searches, combined_key)
         /\ StoreMatches(local, fresh, result_cids)

\* lines 3240-3279 and 3281-3337 after a remote combine that failed
Fallback(operation, fresh, fetchUser, uploadCombined) ==
    LET user_cids == fetch_cids_from_listkey(fetchUser, user_set)
        call == [NoCall EXCEPT !.operation = operation, !.combine = "fail",
                               !.deref = IF user_cids.ok THEN "ok" ELSE "fail"]
        result_cids == LocalCombine(operation, our_cids, user_cids.cids)
        local == [call EXCEPT !.path = "fallback", !.computed = TRUE,
                              !.list_size = Cardinality(result_cids)]
        combined_key == upload_cids_to_pubchem_cache(uploadCombined, fresh)
    IN
    IF ~user_cids.ok
    THEN /\ c_ret' = StaleSearch
         /\ c_last' = call
         /\ UNCHANGED <<filter_results, app_searches, c_by>>
    ELSE IF Cardinality(result_cids) > 0 /\ combined_key = NoKey
    THEN Refuse("upload_combined_failed", [local EXCEPT !.cids = result_cids])
    ELSE IF Cardinality(result_cids) = 0
    THEN StoreEmpty(local, fresh)
    ELSE /\ app_searches' \in save_app_search(app_searches, combined_key)
         /\ StoreMatches(local, fresh, result_cids)

\* the outcomes of the remote calls one request can make, in the order it
\* makes them; a call that is not made has no outcome (FALSE)
RemoteOutcomes ==
    {net \in [uploadOurs : BOOLEAN, combineOk : BOOLEAN, fetchUser : BOOLEAN,
              uploadCombined : BOOLEAN, fetchCombined : BOOLEAN,
              fetchUserAgain : BOOLEAN] :
        /\ ~net.uploadOurs => ~net.combineOk /\ ~net.fetchUser
        /\ net.combineOk => ~net.fetchUser
        /\ ~net.fetchUser => ~net.uploadCombined
        /\ ~net.combineOk => ~net.fetchCombined /\ ~net.fetchUserAgain
        /\ net.fetchCombined => ~net.fetchUserAgain}

\* POST /api/combine-pubchem/<operation>, with the outcome of each remote
\* call it makes
Combine(opIn, net) ==
    /\ c_calls < MaxCombines
    /\ c_calls' = c_calls + 1
    /\ LET operation == Upper(opIn)
           fresh == c_calls + 1
           call == [NoCall EXCEPT !.operation = operation]
           our_key == upload_cids_to_pubchem_cache(net.uploadOurs, fresh)
           combined == combine_pubchem_cache_keys(net.combineOk, user_set, our_cids,
                                                   operation, fresh)
       IN
       IF operation \notin Operations THEN Refuse("invalid_operation", call)
       ELSE IF our_cids = {} THEN Refuse("no_cids", call)
       ELSE IF our_key = NoKey THEN Refuse("upload_failed", call)
       ELSE IF combined.ok
       THEN FastPath(operation, combined, fresh, net.fetchCombined, net.fetchUserAgain)
       ELSE Fallback(operation, fresh, net.fetchUser, net.uploadCombined)
    /\ UNCHANGED <<our_cids, user_set, diskVars, lookupVars, syncVars, casVars, moreVars>>

InitCombine ==
    /\ dump = EmptyMap /\ cacheFile = EmptyMap /\ cacheText = "json" /\ errCached = {}
    /\ ctsNet = [k \in Ids |-> CtsResponses]
    /\ apiNet = [k \in Ids |-> ApiResponses]
    /\ LookupIdle
    /\ SyncIdle
    /\ CasIdle
    /\ MoreIdle
    /\ our_cids \in SUBSET CombCids
    /\ user_set \in SUBSET CombCids
    /\ filter_results = <<>> /\ app_searches = {}
    /\ c_calls = 0 /\ c_ret = NoRet /\ c_last = NoCall /\ c_by = EmptyMap

NextCombine ==
    \E opIn \in OperationInputs : \E net \in RemoteOutcomes : Combine(opIn, net)

SpecCombine == InitCombine /\ [][NextCombine]_vars

\* --- claims about combine -------------------------------------------
\* the FilterResults the last call stored
StoredByLastCall ==
    {i \in DOMAIN filter_results : filter_results[i].created = c_calls}

LastStored == filter_results[CHOOSE i \in StoredByLastCall : TRUE]

SetAlgebra(operation, local, user) ==
    CASE operation = "AND" -> local \cap user
      [] operation = "OR" -> local \cup user
      [] operation = "NOT" -> local \ user

\* C16: the local fallback computes local /\ user for AND, local \/ user
\* for OR and local minus user for NOT, and stores that set; local {1,2,3}
\* with user {2,3,4} gives {2,3}, {1,2,3,4} and {1}.
C16_LocalFallbackSets ==
    c_last.computed =>
        /\ c_last.cids = SetAlgebra(c_last.operation, our_cids, user_set)
        /\ c_ret.error = "" =>
              LastStored.matching_cids = SetAlgebra(c_last.operation, our_cids, user_set)
        /\ (our_cids = {1, 2, 3} /\ user_set = {2, 3, 4}) =>
              /\ c_last.operation = "AND" => c_last.cids = {2, 3}
              /\ c_last.operation = "OR" => c_last.cids = {1, 2, 3, 4}
              /\ c_last.operation = "NOT" => c_last.cids = {1}

C16_Witness ==
    /\ our_cids = {1, 2, 3} /\ user_set = {2, 3, 4}
    /\ c_last.path = "fallback" /\ c_last.operation = "NOT"
    /\ c_ret.error = ""
    /\ LastStored.matching_cids = {1}

\* C17: for the same local set, user set and operation, the fast path and
\* the local fallback produce the same id set.
C17_PathsAgree ==
    \A op \in Operations :
        (<<"fast", op>> \in DOMAIN c_by /\ <<"fallback", op>> \in DOMAIN c_by)
            => c_by[<<"fast", op>>] = c_by[<<"fallback", op>>]

Paths == {"fast", "fallback"}

\* C18: whichever path produced them, the AND result is no larger than the
\* local set and than the user set, and the local set is no larger than the
\* OR result.
C18_Cardinalities ==
    \A pa, po \in Paths :
        (<<pa, "AND">> \in DOMAIN c_by /\ <<po, "OR">> \in DOMAIN c_by) =>
            /\ Cardinality(c_by[<<pa, "AND">>]) <= Cardinality(our_cids)
            /\ Cardinality(our_cids) <= Cardinality(c_by[<<po, "OR">>])
            /\ Cardinality(c_by[<<pa, "AND">>]) <= Cardinality(user_set)

\* AND then OR on the fallback, every inequality strict
C18_Witness ==
    /\ <<"fallback", "AND">> \in DOMAIN c_by
    /\ <<"fallback", "OR">> \in DOMAIN c_by
    /\ c_last.operation = "OR"
    /\ c_by[<<"fallback", "AND">>] # {}
    /\ Cardinality(c_by[<<"fallback", "AND">>]) < Cardinality(our_cids)
    /\ Cardinality(our_cids) < Cardinality(c_by[<<"fallback", "OR">>])
    /\ Cardinality(c_by[<<"fallback", "AND">>]) < Cardinality(user_set)

\* C19: when the remote combine failed and the user's handle could not be
\* dereferenced, no set operation is computed, the answer is stale_search
\* with the handle and its name, and no handle, id list or FilterResult
\* comes out of the call.
C19_StaleHandleNotUsed ==
    (c_last.combine = "fail" /\ c_last.deref = "fail") =>
        /\ ~c_last.computed
        /\ c_ret.error = "stale_search"
        /\ c_ret.cache_key = UserKey
        /\ c_ret.search_name = UserName
        /\ c_ret.pubchem_url = NoKey /\ c_ret.filter_id = NoKey
        /\ StoredByLastCall = {}
        /\ c_calls \notin app_searches
        /\ c_last.cids = {}

\* a second call finds the handle gone after a first one used it
C19_Witness ==
    /\ c_last.combine = "fail" /\ c_last.deref = "fail"
    /\ c_calls = 2
    /\ our_cids # {} /\ user_set # {}
    /\ Len(filter_results) = 1
    /\ c_ret.error = "stale_search"

\* C20: a call that returns no error has stored exactly one FilterResult,
\* whose match_count is the number of its ids; a combination of zero ids
\* returns no error and its FilterResult has no ids and no URL.
C20_OneFilterResultPerSuccess ==
    /\ (c_calls > 0 /\ c_ret.error = "") =>
          /\ Cardinality(StoredByLastCall) = 1
          /\ LastStored.id = c_ret.filter_id
          /\ LastStored.match_count = Cardinality(LastStored.matching_cids)
    /\ c_last.list_size = 0 =>
          /\ c_ret.error = ""
          /\ LastStored.matching_cids = {}
          /\ LastStored.match_count = 0
          /\ LastStored.pubchem_url = NoKey

\* a zero-match fast-path call after a call that stored matches
C20_Witness ==
    /\ c_calls = 2
    /\ c_last.path = "fast" /\ c_last.list_size = 0
    /\ c_ret.error = ""
    /\ Len(filter_results) = 2
    /\ filter_results[1].matching_cids = {}
    /\ filter_results[2].match_count > 0

\* ===================================================================
\* The filter-result store (save_filter_result, toggle_saved_filter,
\* delete_filter_result)
\* ===================================================================
MaxSaves == 3
MaxToggles == 2
MaxDeletes == 1

\* the file after n results were stored and none was saved or deleted
RECURSIVE StoredUnsaved(_)
StoredUnsaved(n) ==
    IF n = 0 THEN <<>>
    ELSE save_filter_result(StoredUnsaved(n - 1), n, UserName, "AND", {}, NoKey)

FilterIds == 1..(FilterCap - 1 + MaxSaves)

\* toggle_saved_filter: the flag is set on the first entry with that id
toggle_saved_filter(stored, filter_id, saved) ==
    LET hits == {i \in DOMAIN stored : stored[i].id = filter_id} IN
    IF hits = {} THEN stored
    ELSE LET first == CHOOSE i \in hits : \A j \in hits : i <= j
         IN [stored EXCEPT ![first].saved = saved]

KeepsId(r, filter_id) == r.id # filter_id

\* delete_filter_result: every entry with that id goes
delete_filter_result(stored, filter_id) ==
    LET keep(r) == KeepsId(r, filter_id) IN SelectSeq(stored, keep)

InitStore ==
    /\ dump = EmptyMap /\ cacheFile = EmptyMap /\ cacheText = "json" /\ errCached = {}
    /\ ctsNet = [k \in Ids |-> CtsResponses]
    /\ apiNet = [k \in Ids |-> ApiResponses]
    /\ LookupIdle
    /\ SyncIdle
    /\ CasIdle
    /\ our_cids = {} /\ user_set = {} /\ app_searches = {}
    /\ c_calls = 0 /\ c_ret = NoRet /\ c_last = NoCall /\ c_by = EmptyMap
    /\ f_clock \in {0, FilterCap - 1}
    /\ filter_results = StoredUnsaved(f_clock)
    /\ f_toggles = 0 /\ f_deletes = 0
    /\ ListsIdle
    /\ HistoryIdle
    /\ RepairIdle
    /\ ExtraIdle

StoreFrame ==
    UNCHANGED <<our_cids, user_set, app_searches, c_calls, c_ret, c_last, c_by,
                diskVars, lookupVars, syncVars, casVars, listVars, histVars,
                repairVars, extraVars>>

SaveFilterResult ==
    /\ f_clock < FilterCap - 1 + MaxSaves
    /\ f_clock' = f_clock + 1
    /\ filter_results' = save_filter_result(filter_results, f_clock + 1, UserName,
                                            "AND", {}, NoKey)
    /\ UNCHANGED <<f_toggles, f_deletes>>
    /\ StoreFrame

ToggleSavedFilter(filter_id, saved) ==
    /\ f_toggles < MaxToggles
    /\ f_toggles' = f_toggles + 1
    /\ filter_results' = toggle_saved_filter(filter_results, filter_id, saved)
    /\ UNCHANGED <<f_clock, f_deletes>>
    /\ StoreFrame

DeleteFilterResult(filter_id) ==
    /\ f_deletes < MaxDeletes
    /\ f_deletes' = f_deletes + 1
    /\ filter_results' = delete_filter_result(filter_results, filter_id)
    /\ UNCHANGED <<f_clock, f_toggles>>
    /\ StoreFrame

NextStore ==
    \/ SaveFilterResult
    \/ \E filter_id \in FilterIds : \E saved \in BOOLEAN :
           ToggleSavedFilter(filter_id, saved)
    \/ \E filter_id \in FilterIds : DeleteFilterResult(filter_id)

SpecStore == InitStore /\ [][NextStore]_vars

\* --- claims about the filter-result store ---------------------------
StoredIds(stored) == {stored[i].id : i \in DOMAIN stored}
SaveStep == f_clock' = f_clock + 1

\* C21: the store never holds more than 10 entries that are not saved.
C21_AtMostTenUnsaved == Len(SelectSeq(filter_results, IsUnsaved)) <= 10

\* C22: an entry whose saved flag is set stays in the store through every
\* step that is not a delete_filter_result call.
C22_SavedNeverEvicted ==
    [][\A i \in DOMAIN filter_results :
          filter_results[i].saved =>
              \/ filter_results[i].id \in StoredIds(filter_results')
              \/ f_deletes' # f_deletes]_vars

\* a saved entry is still stored although a result created after it has
\* been evicted
C22_Witness ==
    /\ f_deletes = 0
    /\ \E i \in DOMAIN filter_results :
          /\ filter_results[i].saved
          /\ \E id \in 1..f_clock :
                /\ id > filter_results[i].created
                /\ id \notin StoredIds(filter_results)

\* C23: when save_filter_result evicts an entry, no unsaved entry created
\* before it is retained.
C23_EvictsOldestUnsaved ==
    [][SaveStep =>
          \A i \in DOMAIN filter_results :
              filter_results[i].id \notin StoredIds(filter_results') =>
                  \A j \in DOMAIN filter_results' :
                      \/ filter_results'[j].saved
                      \/ filter_results'[j].created > filter_results[i].created]_vars

\* C24: after save_filter_result the list is in non-increasing order of
\* creation, the newest result first.
C24_MostRecentFirst ==
    [][SaveStep =>
          \A i, j \in DOMAIN filter_results' :
              i < j => filter_results'[i].created >= filter_results'[j].created]_vars

\* ===================================================================
\* The app-generated list and the stale blacklist (save_app_search,
\* mark_search_as_stale)
\* ===================================================================
MaxListCalls == 2
StaleCap == 100

\* mark_search_as_stale: the contents the file can have afterwards; the
\* last StaleCap elements of a set listed in no particular order
mark_search_as_stale(keys, cache_key) ==
    LastOfSet(keys \cup {cache_key}, StaleCap)

\* keys a call can carry: one stored before, and new ones
AppKeys == {1} \cup ((AppCap + 1)..(AppCap + MaxListCalls))
StaleKeys == {1} \cup ((StaleCap + 1)..(StaleCap + MaxListCalls))

InitLists ==
    /\ dump = EmptyMap /\ cacheFile = EmptyMap /\ cacheText = "json" /\ errCached = {}
    /\ ctsNet = [k \in Ids |-> CtsResponses]
    /\ apiNet = [k \in Ids |-> ApiResponses]
    /\ LookupIdle
    /\ SyncIdle
    /\ CasIdle
    /\ StoreIdle
    /\ our_cids = {} /\ user_set = {} /\ filter_results = <<>>
    /\ c_calls = 0 /\ c_ret = NoRet /\ c_last = NoCall /\ c_by = EmptyMap
    /\ app_searches \in {{}, 1..AppCap}
    /\ stale_searches \in {{}, 1..StaleCap}
    /\ l_calls = 0 /\ l_last = NoListCall
    /\ HistoryIdle
    /\ RepairIdle
    /\ ExtraIdle

ListsFrame ==
    UNCHANGED <<our_cids, user_set, filter_results, c_calls, c_ret, c_last, c_by,
                diskVars, lookupVars, syncVars, casVars, storeVars, histVars,
                repairVars, extraVars>>

SaveAppSearch(cache_key) ==
    /\ l_calls < MaxListCalls
    /\ l_calls' = l_calls + 1
    /\ app_searches' \in save_app_search(app_searches, cache_key)
    /\ l_last' = [fn |-> "save_app_search", key |-> cache_key]
    /\ UNCHANGED stale_searches
    /\ ListsFrame

MarkSearchAsStale(cache_key) ==
    /\ l_calls < MaxListCalls
    /\ l_calls' = l_calls + 1
    /\ stale_searches' \in mark_search_as_stale(stale_searches, cache_key)
    /\ l_last' = [fn |-> "mark_search_as_stale", key |-> cache_key]
    /\ UNCHANGED app_searches
    /\ ListsFrame

NextLists ==
    \/ \E cache_key \in AppKeys : SaveAppSearch(cache_key)
    \/ \E cache_key \in StaleKeys : MarkSearchAsStale(cache_key)

SpecLists == InitLists /\ [][NextLists]_vars

\* C25: the blacklist never holds more than 100 keys and the app-generated
\* list never more than 50; each is a set, no key is held twice.
C25_ListsCapped ==
    /\ Cardinality(stale_searches) <= 100
    /\ Cardinality(app_searches) <= 50

\* both lists are full and each has dropped a key
C25_Witness ==
    /\ Cardinality(app_searches) = 50
    /\ Cardinality(stale_searches) = 100
    /\ \E k \in 1..AppCap : k \notin app_searches
    /\ \E k \in 1..StaleCap : k \notin stale_searches

\* C26: right after save_app_search(k) the key k is in the app-generated
\* list, and right after mark_search_as_stale(k) it is in the blacklist.
C26_NewKeyKept ==
    /\ l_last.fn = "save_app_search" => l_last.key \in app_searches
    /\ l_last.fn = "mark_search_as_stale" => l_last.key \in stale_searches

\* ===================================================================
\* Browser history (the two adapters, get_pubchem_history_details)
\* ===================================================================
MaxHistTime == 2
MaxHistLen == 2

NoTimestamp == 0
NoCacheKey == ""
Handles == {"h1", "h2"}

\* a stored entry: details.cachekey (possibly missing) and timestamp
\* (0 when missing); isoformat strings of one clock compare as the times do
StoredEntries ==
    [cachekey : Handles, timestamp : 0..MaxHistTime]
        \cup {[cachekey |-> NoCacheKey, timestamp |-> NoTimestamp]}
StoredLists == UNION {[1..n -> StoredEntries] : n \in 0..MaxHistLen}

HasCacheKey(entry) == entry.cachekey # NoCacheKey

\* _parse_history_entries: entries without a cachekey are skipped
_parse_history_entries(history) == SelectSeq(history, HasCacheKey)

FirefoxModes == {"ok", "no_profiles_dir", "manifest_unreadable", "no_db",
                 "copy_failed", "no_history_key", "decompress_error", "decode_error"}
ChromeModes == {"ok", "no_dir", "import_error", "leveldb_error", "decode_error",
                "no_history_key"}

\* find_firefox_pubchem_db: a path, None, or the exception of
\* profiles_ini.read_text()
find_firefox_pubchem_db(mode) ==
    IF mode = "no_profiles_dir" THEN "none"
    ELSE IF mode = "manifest_unreadable" THEN "raise"
    ELSE IF mode = "no_db" THEN "none"
    ELSE "path"

\* _get_firefox_pubchem_history: the database is looked for before the try
_get_firefox_pubchem_history(mode, stored) ==
    LET db_path == find_firefox_pubchem_db(mode) IN
    IF db_path = "raise" THEN [raised |-> TRUE, entries |-> <<>>]
    ELSE IF db_path = "none" THEN [raised |-> FALSE, entries |-> <<>>]
    ELSE IF mode = "ok"
    THEN [raised |-> FALSE, entries |-> _parse_history_entries(stored)]
    ELSE [raised |-> FALSE, entries |-> <<>>]

\* _get_chrome_pubchem_history
_get_chrome_pubchem_history(mode, stored) ==
    IF mode = "ok"
    THEN [raised |-> FALSE, entries |-> _parse_history_entries(stored)]
    ELSE [raised |-> FALSE, entries |-> <<>>]

Tagged(entries, browser) ==
    [i \in DOMAIN entries |->
        [cachekey |-> entries[i].cachekey,
         timestamp |-> entries[i].timestamp,
         browser |-> browser]]

PositionOf(seenList, key) == CHOOSE i \in DOMAIN seenList : seenList[i].cachekey = key

\* the dict keeps the first entry whatever the timestamps
SeenStep_FirstWins(seenList, entry) ==
    IF \A i \in DOMAIN seenList : seenList[i].cachekey # entry.cachekey
    THEN Append(seenList, entry)
    ELSE seenList

\* one round of the merge loop; the dict keeps a key at the place where it
\* was first inserted
SeenStep(seenList, entry) ==
    IF \A i \in DOMAIN seenList : seenList[i].cachekey # entry.cachekey
    THEN Append(seenList, entry)
    ELSE IF entry.timestamp > seenList[PositionOf(seenList, entry.cachekey)].timestamp
    THEN [seenList EXCEPT ![PositionOf(seenList, entry.cachekey)] = entry]
    ELSE seenList

RECURSIVE SeenLoop(_, _)
SeenLoop(entries, seenList) ==
    IF entries = <<>> THEN seenList
    ELSE SeenLoop(Tail(entries), SeenStep(seenList, Head(entries)))

\* list.sort(key=timestamp, reverse=True): stable, newest first
RECURSIVE InsertNewestFirst(_, _)
InsertNewestFirst(sorted, entry) ==
    IF sorted = <<>> THEN <<entry>>
    ELSE IF Head(sorted).timestamp >= entry.timestamp
    THEN <<Head(sorted)>> \o InsertNewestFirst(Tail(sorted), entry)
    ELSE <<entry>> \o sorted

RECURSIVE SortNewestFirst(_)
SortNewestFirst(entries) ==
    IF entries = <<>> THEN <<>>
    ELSE InsertNewestFirst(SortNewestFirst(SubSeq(entries, 1, Len(entries) - 1)),
                           entries[Len(entries)])

get_pubchem_history_details(firefox, chrome) ==
    IF firefox.raised \/ chrome.raised THEN [raised |-> TRUE, entries |-> <<>>]
    ELSE [raised |-> FALSE,
          entries |-> SortNewestFirst(
                          SeenLoop(Tagged(firefox.entries, "Firefox")
                                       \o Tagged(chrome.entries, "Chrome"), <<>>))]

InitHistory ==
    /\ dump = EmptyMap /\ cacheFile = EmptyMap /\ cacheText = "json" /\ errCached = {}
    /\ ctsNet = [k \in Ids |-> CtsResponses]
    /\ apiNet = [k \in Ids |-> ApiResponses]
    /\ LookupIdle
    /\ SyncIdle
    /\ CasIdle
    /\ CombineIdle
    /\ StoreIdle
    /\ ListsIdle
    /\ firefox_store \in StoredLists
    /\ chrome_store \in StoredLists
    /\ h_pc = "input" /\ h_modes = NoModes /\ h_out = NoHistory
    /\ app_search_metadata = <<>> /\ h_view = NoView
    /\ RepairIdle
    /\ ExtraIdle

HistoryFrame ==
    UNCHANGED <<diskVars, lookupVars, syncVars, casVars, combVars, storeVars, listVars,
                repairVars, extraVars>>

\* one call of get_pubchem_history_details; each adapter meets one of its
\* failure modes or none
GetPubchemHistoryDetails(firefox_mode, chrome_mode) ==
    /\ h_pc = "input"
    /\ h_modes' = [firefox |-> firefox_mode, chrome |-> chrome_mode]
    /\ h_out' = get_pubchem_history_details(
                    _get_firefox_pubchem_history(firefox_mode, firefox_store),
                    _get_chrome_pubchem_history(chrome_mode, chrome_store))
    /\ h_pc' = "read"
    /\ UNCHANGED <<firefox_store, chrome_store, app_search_metadata, h_view>>
    /\ HistoryFrame

NextHistory ==
    \E firefox_mode \in FirefoxModes, chrome_mode \in ChromeModes :
        GetPubchemHistoryDetails(firefox_mode, chrome_mode)

SpecHistory == InitHistory /\ [][NextHistory]_vars

\* handles an adapter reads from its store
StoredHandles(stored) ==
    {stored[i].cachekey : i \in DOMAIN stored} \ {NoCacheKey}

TimestampsOf(stored, key) ==
    {stored[i].timestamp : i \in {j \in DOMAIN stored : stored[j].cachekey = key}}

MaxOf(numbers) == CHOOSE m \in numbers : \A n \in numbers : n <= m

BothRead == h_pc = "read" /\ h_modes = [firefox |-> "ok", chrome |-> "ok"]

\* C28: the merged history holds every handle of either source exactly once,
\* the entry of a handle carries the greatest timestamp stored for it in the
\* two sources, and the list is ordered newest first
C28_MergedHistory ==
    BothRead =>
        LET merged == h_out.entries IN
        /\ ~h_out.raised
        /\ {merged[i].cachekey : i \in DOMAIN merged}
               = StoredHandles(firefox_store) \cup StoredHandles(chrome_store)
        /\ \A i, j \in DOMAIN merged :
               i # j => merged[i].cachekey # merged[j].cachekey
        /\ \A i \in DOMAIN merged :
               merged[i].timestamp
                   = MaxOf(TimestampsOf(firefox_store \o chrome_store, merged[i].cachekey))
        /\ \A i, j \in DOMAIN merged :
               i < j => merged[i].timestamp >= merged[j].timestamp

\* a handle stored in both browsers, newer in Chrome, and the merge has run
C28_Witness ==
    /\ BothRead
    /\ \E key \in StoredHandles(firefox_store) \cap StoredHandles(chrome_store) :
           /\ MaxOf(TimestampsOf(chrome_store, key)) > MaxOf(TimestampsOf(firefox_store, key))
           /\ \E i \in DOMAIN h_out.entries :
                  /\ h_out.entries[i].cachekey = key
                  /\ h_out.entries[i].browser = "Chrome"
    /\ Len(h_out.entries) = 2

OneAdapterFailed ==
    /\ h_pc = "read"
    /\ (h_modes.firefox = "ok") # (h_modes.chrome = "ok")

OtherAdaptersEntries ==
    IF h_modes.firefox = "ok"
    THEN get_pubchem_history_details(
             _get_firefox_pubchem_history("ok", firefox_store),
             [raised |-> FALSE, entries |-> <<>>])
    ELSE get_pubchem_history_details(
             [raised |-> FALSE, entries |-> <<>>],
             _get_chrome_pubchem_history("ok", chrome_store))

\* C29: reading browser history never raises to the caller; when one adapter
\* fails, the result is exactly the entries of the other adapter
C29_FailureDegradesToEmpty ==
    /\ h_pc = "read" => ~h_out.raised
    /\ OneAdapterFailed => h_out = OtherAdaptersEntries

\* ===================================================================
\* The history endpoint (pubchem_history)
\* ===================================================================
MaxMeta == 1

\* entries of the "searches" list written by save_app_search_with_metadata
MetaEntries == [cache_key : Handles, timestamp : 1..MaxHistTime]
MetaLists == UNION {[1..n -> MetaEntries] : n \in 0..MaxMeta}

MetaPosition(metaList, key) == CHOOSE i \in DOMAIN metaList : metaList[i].cache_key = key

\* the dict comprehension: a key stays where it first came, with its last value
MetaStep(metaList, s) ==
    IF \A i \in DOMAIN metaList : metaList[i].cache_key # s.cache_key
    THEN Append(metaList, s)
    ELSE [metaList EXCEPT ![MetaPosition(metaList, s.cache_key)] = s]

RECURSIVE MetaLoop(_, _)
MetaLoop(searches, metaList) ==
    IF searches = <<>> THEN metaList
    ELSE MetaLoop(Tail(searches), MetaStep(metaList, Head(searches)))

load_app_search_metadata(searches) == MetaLoop(searches, <<>>)

KeysOf(entries) == {entries[i].cachekey : i \in DOMAIN entries}

\* the entries appended for direct searches of the app
AppEntries(metadata, browser_history_keys, stale) ==
    LET Shown(s) == s.cache_key \notin browser_history_keys /\ s.cache_key \notin stale
        shown == SelectSeq(metadata, Shown)
    IN [i \in DOMAIN shown |->
           [cachekey |-> shown[i].cache_key,
            timestamp |-> shown[i].timestamp,
            browser |-> "App"]]

\* history.sort(key=timestamp): comparing None with anything is a TypeError
SortRaises(history) ==
    /\ Len(history) >= 2
    /\ \E i \in DOMAIN history : history[i].timestamp = NoTimestamp

\* the default view keeps stale handles
Visible_AppOnly(entry, app, stale) == entry.cachekey \notin app

Visible(entry, app, stale) == entry.cachekey \notin (app \cup stale)

pubchem_history(details, searches, app, stale) ==
    IF details.raised THEN [raised |-> TRUE, history |-> <<>>, all_history |-> <<>>]
    ELSE
        LET history == details.entries
                           \o AppEntries(load_app_search_metadata(searches),
                                         KeysOf(details.entries), stale)
            Kept(entry) == Visible(entry, app, stale)
        IN IF SortRaises(history)
           THEN [raised |-> TRUE, history |-> <<>>, all_history |-> <<>>]
           ELSE [raised |-> FALSE,
                 history |-> SelectSeq(SortNewestFirst(history), Kept),
                 all_history |-> SortNewestFirst(history)]

InitHistoryView ==
    /\ dump = EmptyMap /\ cacheFile = EmptyMap /\ cacheText = "json" /\ errCached = {}
    /\ ctsNet = [k \in Ids |-> CtsResponses]
    /\ apiNet = [k \in Ids |-> ApiResponses]
    /\ LookupIdle
    /\ SyncIdle
    /\ CasIdle
    /\ StoreIdle
    /\ our_cids = {} /\ user_set = {} /\ filter_results = <<>>
    /\ c_calls = 0 /\ c_ret = NoRet /\ c_last = NoCall /\ c_by = EmptyMap
    /\ l_calls = 0 /\ l_last = NoListCall
    /\ app_searches \in SUBSET Handles
    /\ stale_searches \in SUBSET Handles
    /\ firefox_store \in StoredLists
    /\ chrome_store = <<>>
    /\ app_search_metadata \in MetaLists
    /\ h_pc = "input" /\ h_modes = NoModes /\ h_out = NoHistory
    /\ h_view = NoView
    /\ RepairIdle
    /\ ExtraIdle

\* one request to /api/pubchem-history
PubchemHistory(firefox_mode, chrome_mode) ==
    /\ h_pc = "input"
    /\ h_modes' = [firefox |-> firefox_mode, chrome |-> chrome_mode]
    /\ h_out' = get_pubchem_history_details(
                    _get_firefox_pubchem_history(firefox_mode, firefox_store),
                    _get_chrome_pubchem_history(chrome_mode, chrome_store))
    /\ h_view' = pubchem_history(h_out', app_search_metadata,
                                 app_searches, stale_searches)
    /\ h_pc' = "viewed"
    /\ UNCHANGED <<firefox_store, chrome_store, app_search_metadata>>
    /\ HistoryFrame

NextHistoryView ==
    \E firefox_mode \in FirefoxModes, chrome_mode \in ChromeModes :
        PubchemHistory(firefox_mode, chrome_mode)

SpecHistoryView == InitHistoryView /\ [][NextHistoryView]_vars

Excluded == app_searches \cup stale_searches

\* the request was answered with both adapters reading their stores
Viewed == h_pc = "viewed" /\ h_modes = [firefox |-> "ok", chrome |-> "ok"]

\* C27: a stale or app-generated handle never appears in the default view, and
\* one that is in browser history still appears in all_history
C27_ExcludedFromDefaultView ==
    Viewed =>
        /\ KeysOf(h_view.history) \cap Excluded = {}
        /\ Excluded \cap StoredHandles(firefox_store) \subseteq KeysOf(h_view.all_history)

\* the same, for the requests that pubchem_history answers
C27_WhenAnswered ==
    (Viewed /\ ~h_view.raised) =>
        /\ KeysOf(h_view.history) \cap Excluded = {}
        /\ Excluded \cap StoredHandles(firefox_store) \subseteq KeysOf(h_view.all_history)

\* ===================================================================
\* Repair of unmatched rows (repair_unmatched_entries, its background
\* thread, apply_repairs).  Row positions are 1-based here, 0-based in
\* the code.
\* ===================================================================
MaxRepairRows == 2
MaxRepairCid == 2
MaxRepairRuns == 2
MaxApplies == 2

NoCas == 0
RepairCas == 1..(MaxRepairRows + 1)
RepairCids == 1..MaxRepairCid

\* a row of the table: CID (NoCid for None or NaN), Casnr, whether Name is
\* present and not "-", and _repair_status ("" when the key is absent)
UnmatchedRows == [CID : {NoCid}, named : BOOLEAN, status : {"", "failed"}]
MatchedRows == [CID : RepairCids, named : {TRUE}, status : {""}]

\* the table as extraction and sync leave it
Tables ==
    UNION {[1..n -> UnmatchedRows \cup MatchedRows] : n \in 0..MaxRepairRows}

\* rows of one registry number got the same CID from the lookup
SameCid(table) == \A i, j \in DOMAIN table : table[i].CID = table[j].CID

\* row i carries registry number i, or every row the same number
WithCasnr(table, shared) ==
    [i \in DOMAIN table |->
        [CID |-> table[i].CID, Casnr |-> IF shared THEN 1 ELSE i,
         named |-> table[i].named, status |-> table[i].status]]

\* the cache the sync wrote for these rows
SyncedCache(rows) ==
    [c \in {rows[i].Casnr : i \in DOMAIN rows} |->
        LET row == rows[CHOOSE i \in DOMAIN rows : rows[i].Casnr = c]
        IN [cid |-> row.CID,
            status |-> IF row.CID = NoCid THEN "not_found" ELSE "found"]]

\* what repair_entry_by_text_search can answer for one name
NoMatch == [cid |-> NoCid, real_cas |-> NoCas]
SearchResults == {NoMatch} \cup [cid : RepairCids, real_cas : {NoCas} \cup RepairCas]

\* the rows a run searches for (skip_repaired is True)
IsUnmatched(row) ==
    /\ row.CID = NoCid
    /\ row.status \notin {"repaired", "failed"}
    /\ row.named

Unmatched(rows) == {i \in DOMAIN rows : IsUnmatched(rows[i])}

\* indices of a set, in ascending order
RECURSIVE Ascending(_)
Ascending(indices) ==
    IF indices = {} THEN <<>>
    ELSE LET least == CHOOSE i \in indices : \A j \in indices : i <= j
         IN <<least>> \o Ascending(indices \ {least})

\* the table file is there in every state of the model, the cache file may
\* be missing
repair_unmatched_entries(rows, loaded_cache, found) ==
    IF ~loaded_cache.exists
    THEN [error |-> TRUE, repaired_entries |-> <<>>, failed_indices |-> <<>>]
    ELSE
        LET unmatched == Ascending(Unmatched(rows))
            Repaired(i) == found[i] # NoMatch
            Failed(i) == found[i] = NoMatch
            repaired == SelectSeq(unmatched, Repaired)
        IN [error |-> FALSE,
            repaired_entries |->
                [k \in DOMAIN repaired |->
                    [row_index |-> repaired[k],
                     cas |-> rows[repaired[k]].Casnr,
                     cid |-> found[repaired[k]].cid,
                     real_cas |-> found[repaired[k]].real_cas]],
            failed_indices |-> SelectSeq(unmatched, Failed)]

InRange(seq) == {seq[k] : k \in DOMAIN seq}

\* a thread that commits what it found without review
MarkFailed_Commits(rows, result) ==
    [i \in DOMAIN rows |->
        IF \E k \in DOMAIN result.repaired_entries :
               result.repaired_entries[k].row_index = i
        THEN [rows[i] EXCEPT
                 !.CID = result.repaired_entries[
                             CHOOSE k \in DOMAIN result.repaired_entries :
                                 result.repaired_entries[k].row_index = i].cid]
        ELSE rows[i]]

\* _bg_repair_unmatched, after the search: the failed rows are marked in the
\* table read at that moment
MarkFailed(rows, result) ==
    [i \in DOMAIN rows |->
        IF i \in InRange(result.failed_indices)
        THEN [rows[i] EXCEPT !.status = "failed"]
        ELSE rows[i]]

Put(map, key, value) ==
    [k \in DOMAIN map \cup {key} |-> IF k = key THEN value ELSE map[k]]

\* one round of the loop of apply_repairs; st holds rows, results and count
ApplyStep(st, entry, approved_indices) ==
    IF entry.row_index \notin approved_indices THEN st
    ELSE IF entry.row_index \notin DOMAIN st.rows THEN st
    ELSE
        LET row == st.rows[entry.row_index]
            cache_cas == IF entry.real_cas # NoCas THEN entry.real_cas ELSE row.Casnr
        IN [rows |-> [st.rows EXCEPT ![entry.row_index] =
                         [CID |-> entry.cid, Casnr |-> cache_cas,
                          named |-> row.named, status |-> "repaired"]],
            results |-> Put(st.results, cache_cas,
                            [cid |-> entry.cid, status |-> "repaired"]),
            applied |-> st.applied + 1]

RECURSIVE ApplyLoop(_, _, _)
ApplyLoop(st, entries, approved_indices) ==
    IF entries = <<>> THEN st
    ELSE ApplyLoop(ApplyStep(st, Head(entries), approved_indices),
                   Tail(entries), approved_indices)

InitRepair ==
    /\ dump = EmptyMap /\ cacheFile = EmptyMap /\ cacheText = "json" /\ errCached = {}
    /\ ctsNet = [k \in Ids |-> CtsResponses]
    /\ apiNet = [k \in Ids |-> ApiResponses]
    /\ LookupIdle
    /\ SyncIdle
    /\ CasIdle
    /\ CombineIdle
    /\ StoreIdle
    /\ ListsIdle
    /\ HistoryIdle
    /\ ExtraIdle
    /\ \E table \in Tables : \E shared \in BOOLEAN :
           /\ shared => SameCid(table)
           /\ rug_rows = WithCasnr(table, shared)
    /\ \E exists \in BOOLEAN :
           cid_cache = [exists |-> exists,
                        results |-> IF exists THEN SyncedCache(rug_rows) ELSE EmptyMap]
    /\ pending_repairs = NoPending
    /\ r_status = "idle" /\ r_pc = "off" /\ r_result = NoResult
    /\ r_runs = 0 /\ r_applies = 0 /\ r_applied = NoApply

RepairFrame ==
    UNCHANGED <<diskVars, lookupVars, syncVars, casVars, combVars, storeVars, listVars,
                histVars, extraVars>>

\* start_repair_task returning True
StartRepairTask ==
    /\ r_runs < MaxRepairRuns
    /\ r_status # "running"
    /\ r_status' = "running"
    /\ r_pc' = "search"
    /\ r_runs' = r_runs + 1
    /\ UNCHANGED <<rug_rows, cid_cache, pending_repairs, r_result, r_applies, r_applied>>
    /\ RepairFrame

\* the thread runs repair_unmatched_entries; found is what the name search
\* answers for each row searched
BgRepairSearch ==
    /\ r_pc = "search"
    /\ \E found \in [Unmatched(rug_rows) -> SearchResults] :
           r_result' = repair_unmatched_entries(rug_rows, cid_cache, found)
    /\ r_pc' = "finish"
    /\ UNCHANGED <<rug_rows, cid_cache, pending_repairs, r_status, r_runs,
                   r_applies, r_applied>>
    /\ RepairFrame

\* the thread marks the failed rows, stages the matches and reports done
BgRepairFinish ==
    /\ r_pc = "finish"
    /\ rug_rows' = IF r_result.failed_indices # <<>>
                   THEN MarkFailed(rug_rows, r_result)
                   ELSE rug_rows
    /\ pending_repairs' = IF r_result.repaired_entries # <<>>
                          THEN r_result
                          ELSE pending_repairs
    /\ r_status' = "done"
    /\ r_pc' = "off"
    /\ r_result' = NoResult
    /\ UNCHANGED <<cid_cache, r_runs, r_applies, r_applied>>
    /\ RepairFrame

\* POST /api/repair-unmatched/apply
ApplyRepairs(approved_indices) ==
    /\ r_applies < MaxApplies
    /\ r_applies' = r_applies + 1
    /\ IF pending_repairs = NoPending \/ ~cid_cache.exists
       THEN /\ r_applied' = [error |-> TRUE, applied |-> 0, total_pending |-> 0]
            /\ UNCHANGED <<rug_rows, cid_cache, pending_repairs>>
       ELSE LET st == ApplyLoop([rows |-> rug_rows, results |-> cid_cache.results,
                                 applied |-> 0],
                                pending_repairs.repaired_entries, approved_indices)
            IN /\ rug_rows' = st.rows
               /\ cid_cache' = [exists |-> TRUE, results |-> st.results]
               /\ pending_repairs' = NoPending
               /\ r_applied' = [error |-> FALSE, applied |-> st.applied,
                                total_pending |-> Len(pending_repairs.repaired_entries)]
    /\ UNCHANGED <<r_status, r_pc, r_result, r_runs>>
    /\ RepairFrame

NextRepair ==
    \/ StartRepairTask
    \/ BgRepairSearch
    \/ BgRepairFinish
    \/ \E approved_indices \in SUBSET (1..MaxRepairRows) : ApplyRepairs(approved_indices)

SpecRepair == InitRepair /\ [][NextRepair]_vars

RowCids(rows) == [i \in DOMAIN rows |-> rows[i].CID]

\* a step of the repair thread, from its start to its end
RepairRunStep == r_pc' # r_pc

PendingIndices ==
    {pending_repairs.repaired_entries[k].row_index :
        k \in DOMAIN pending_repairs.repaired_entries}

\* the request was served, not refused
Applied(approved_indices) ==
    /\ ApplyRepairs(approved_indices)
    /\ ~r_applied'.error

RowKept(i) == rug_rows'[i] = rug_rows[i]

EntryAt(results_map, cas) ==
    IF cas \in DOMAIN results_map THEN results_map[cas]
    ELSE [cid |-> NoCid, status |-> "absent"]

CacheKept(cas) ==
    EntryAt(cid_cache'.results, cas) = EntryAt(cid_cache.results, cas)

\* C31: apply_repairs commits exactly the pending entries at approved
\* positions; any other row keeps CID, registry number and repair status and
\* no cache entry is written under its registry number; the applied count is
\* the number of rows changed
C31_CommitsExactlyApproved ==
    [][\A approved_indices \in SUBSET (1..MaxRepairRows) :
          Applied(approved_indices) =>
              /\ DOMAIN rug_rows' = DOMAIN rug_rows
              /\ \A i \in DOMAIN rug_rows :
                     i \notin (approved_indices \cap PendingIndices) =>
                         /\ RowKept(i)
                         /\ CacheKept(rug_rows[i].Casnr)
              /\ \A i \in DOMAIN rug_rows \cap approved_indices \cap PendingIndices :
                     rug_rows'[i].status = "repaired"
              /\ r_applied'.applied
                     = Cardinality({i \in DOMAIN rug_rows : ~RowKept(i)})]_vars

\* ===================================================================
\* SpecRebuild: lookup_cas_to_cid_optimized started on a cache file that
\* cannot be read
\* ===================================================================
InitRebuild ==
    /\ dump \in PartialMaps(Ids, Cids)
    /\ cacheFile = EmptyMap
    /\ cacheText \in {"invalid_json", "undecodable"}
    /\ errCached = {}
    /\ ctsNet = [k \in Ids |-> CtsResponses]
    /\ apiNet = [k \in Ids |-> ApiResponses]
    /\ LookupIdle
    /\ SyncIdle
    /\ ToolsIdle

SpecRebuild == InitRebuild /\ [][Next]_vars

\* C32: a cache file holding invalid JSON is read as an empty cache without
\* raising; the run sends every identifier the dump lacks to the network and
\* ends by writing a valid cache file that holds the new results
C32_InvalidCacheRebuilt ==
    [][/\ \A B \in SUBSET Ids :
              (/\ StartLookup(B)
               /\ cacheText = "invalid_json"
               /\ RemainingAfterDump(B) # {}) =>
                  /\ pc' = "cts"
                  /\ cache' = EmptyMap
                  /\ DOMAIN ctsSt' = RemainingAfterDump(B)
       /\ (cacheText = "invalid_json" /\ pc \in {"cts", "api"} /\ pc' = "done") =>
              /\ cacheText' = "json"
              /\ DOMAIN cacheFile' = DOMAIN ctsSt
              /\ \A k \in DOMAIN ctsSt :
                     /\ k \in DOMAIN results'
                     /\ cacheFile'[k] = results'[k].cid]_vars

\* the run that found invalid JSON has ended: the file is valid again and
\* holds a CID found on the network and an identifier that was not found
C32_Witness ==
    /\ pc = "done"
    /\ cache = EmptyMap
    /\ cacheText = "json"
    /\ DOMAIN cacheFile = DOMAIN ctsSt
    /\ \E k \in DOMAIN cacheFile : cacheFile[k] # NoCid
    /\ \E k \in DOMAIN cacheFile : cacheFile[k] = NoCid

\* --- claims about the errors of combine ----------------------------
\* the request reached a dereference of the user's handle and the remote
\* service answered it
UserHandleAnswered(net) ==
    IF net.combineOk THEN net.fetchUserAgain ELSE net.fetchUser

\* C33: combine reports stale_search only when the user's handle cannot be
\* dereferenced; a handle the remote service still answers, with an empty
\* id list, is not reported as stale, and for AND on the fallback it gives
\* a FilterResult of zero matches.
C33_StaleOnlyWhenUnreachable ==
    [][\A opIn \in OperationInputs : \A net \in RemoteOutcomes :
          Combine(opIn, net) =>
              /\ c_ret'.error = "stale_search" => ~UserHandleAnswered(net)
              /\ (/\ Upper(opIn) = "AND" /\ our_cids # {} /\ user_set = {}
                  /\ net.uploadOurs /\ ~net.combineOk /\ net.fetchUser)
                     => /\ c_ret'.error = ""
                        /\ c_ret'.match_count = 0
                        /\ Len(filter_results') = Len(filter_results) + 1]_vars

\* C34: a combine call that returns an error leaves the filter-result
\* store, the list of app-generated handles and the stale blacklist as
\* they were before the call.
C34_ErrorsWriteNothing ==
    [][(c_calls' # c_calls /\ c_ret'.error # "") =>
          /\ filter_results' = filter_results
          /\ app_searches' = app_searches
          /\ stale_searches' = stale_searches]_vars

\* --- re-extraction between a repair run and the apply ----------------
\* a table as save_rug_table writes it: no repair metadata on any row
FreshTables == {table \in Tables : \A i \in DOMAIN table : table[i].status = ""}

\* the rows of a later snapshot in which the first row of the earlier one is
\* gone: position i holds the chemical that was at position i + 1
Shifted(table) ==
    [i \in DOMAIN table |->
        [CID |-> table[i].CID, Casnr |-> i + 1,
         named |-> table[i].named, status |-> table[i].status]]

\* POST /api/run-extraction on a new snapshot: the table and the CID cache
\* are rewritten, pending_repairs.json is left as it is
RunExtraction ==
    /\ \E table \in FreshTables :
           \/ rug_rows' = Shifted(table)
           \/ \E shared \in BOOLEAN :
                  /\ shared => SameCid(table)
                  /\ rug_rows' = WithCasnr(table, shared)
    /\ cid_cache' = [exists |-> TRUE, results |-> SyncedCache(rug_rows')]
    /\ UNCHANGED <<pending_repairs, r_status, r_pc, r_result, r_runs, r_applies,
                   r_applied>>
    /\ RepairFrame

\* the repair runs followed around a re-extraction
MaxExtractRuns == 1

NextReExtract ==
    \/ NextRepair /\ r_runs' <= MaxExtractRuns
    \/ RunExtraction

\* the tables the re-extraction is followed from: the sync found no CID for
\* any row, every row has a name and a registry number of its own
InitReExtract ==
    /\ InitRepair
    /\ cid_cache.exists
    /\ \A i \in DOMAIN rug_rows : IsUnmatched(rug_rows[i]) /\ rug_rows[i].Casnr = i

SpecReExtract == InitReExtract /\ [][NextReExtract]_vars

\* the rows an apply writes: staged, approved and inside the table
WrittenRows(approved_indices) ==
    approved_indices \cap PendingIndices \cap DOMAIN rug_rows

\* the staged entry of a position
StagedFor(i) ==
    pending_repairs.repaired_entries[
        CHOOSE k \in DOMAIN pending_repairs.repaired_entries :
            pending_repairs.repaired_entries[k].row_index = i]

\* C35: apply_repairs sets a CID only on rows that have no CID when it runs
\* and that are the rows the repair was computed for, also when the table
\* was extracted again between the repair run and the apply.
C35_AppliesToRepairedRowsOnly ==
    [][\A approved_indices \in SUBSET (1..MaxRepairRows) :
          Applied(approved_indices) =>
              \A i \in WrittenRows(approved_indices) :
                  /\ rug_rows[i].CID = NoCid
                  /\ rug_rows[i].Casnr = StagedFor(i).cas]_vars

\* --- the background tasks and their start calls ---------------------
\* a start call is "unused", "refused" (it returned without starting a
\* thread), "checked" (it passed the test and has not started its thread
\* yet) or "started"; its thread is "none", "enter" (started, before its
\* first locked block), "work", "exit" (before the finally block) or "ended"
CallsMade(task) == {id \in StartIds : t_call[task][id].state # "unused"}
NextStart(task) == Cardinality(CallsMade(task)) + 1
Live(task) == {id \in StartIds : t_call[task][id].thread \in {"enter", "work", "exit"}}
Pending(task) == {id \in StartIds : t_call[task][id].state = "checked"}

TaskFrame ==
    UNCHANGED <<diskVars, lookupVars, syncVars, casVars, combVars, storeVars, listVars,
                histVars, repairVars, searchVars>>

\* a start that tests the status and leaves it to the thread to set it
start_repair_task_TestOnly ==
    /\ NextStart("repair") <= MaxStarts
    /\ t_call' = [t_call EXCEPT !["repair"][NextStart("repair")].state =
                     IF t_status["repair"] = "running" THEN "refused" ELSE "checked"]
    /\ UNCHANGED <<t_status, t_force>>
    /\ TaskFrame

\* start_repair_task, the block under _repair_lock: test and set in one step
start_repair_task ==
    /\ NextStart("repair") <= MaxStarts
    /\ IF t_status["repair"] = "running"
       THEN /\ t_call' = [t_call EXCEPT !["repair"][NextStart("repair")].state = "refused"]
            /\ UNCHANGED t_status
       ELSE /\ t_status' = [t_status EXCEPT !["repair"] = "running"]
            /\ t_call' = [t_call EXCEPT !["repair"][NextStart("repair")].state = "checked"]
    /\ UNCHANGED t_force
    /\ TaskFrame

\* start_compound_info_fetch, its first statement: the status is read
\* without a lock and is not changed
start_compound_info_fetch(force) ==
    /\ NextStart("info") <= MaxStarts
    /\ t_call' = [t_call EXCEPT !["info"][NextStart("info")] =
                     [state |-> IF t_status["info"] = "running"
                                THEN "refused" ELSE "checked",
                      thread |-> "none",
                      force |-> force]]
    /\ UNCHANGED <<t_status, t_force>>
    /\ TaskFrame

\* threading.Thread(...).start() of either start function; the compound
\* info start sets _compound_info_force first when asked to
StartThread(task, id) ==
    /\ t_call[task][id].state = "checked"
    /\ t_call' = [t_call EXCEPT ![task][id].state = "started",
                                ![task][id].thread = "enter"]
    /\ t_force' = IF task = "info" /\ t_call[task][id].force THEN TRUE ELSE t_force
    /\ UNCHANGED t_status
    /\ TaskFrame

\* the first locked block of the thread: the status is set to running
BgEnter(task, id) ==
    /\ t_call[task][id].thread = "enter"
    /\ t_status' = [t_status EXCEPT ![task] = "running"]
    /\ t_call' = [t_call EXCEPT ![task][id].thread = "work"]
    /\ t_force' = IF task = "info" THEN FALSE ELSE t_force
    /\ TaskFrame

\* the try block: it returns, or raises what the except clause logs
BgWork(task, id) ==
    /\ t_call[task][id].thread = "work"
    /\ t_call' = [t_call EXCEPT ![task][id].thread = "exit"]
    /\ UNCHANGED <<t_status, t_force>>
    /\ TaskFrame

\* the finally block
BgExit(task, id) ==
    /\ t_call[task][id].thread = "exit"
    /\ t_status' = [t_status EXCEPT ![task] = "done"]
    /\ t_call' = [t_call EXCEPT ![task][id].thread = "ended"]
    /\ UNCHANGED t_force
    /\ TaskFrame

InitTasks ==
    /\ dump = EmptyMap /\ cacheFile = EmptyMap /\ cacheText = "json" /\ errCached = {}
    /\ ctsNet = [k \in Ids |-> CtsResponses]
    /\ apiNet = [k \in Ids |-> ApiResponses]
    /\ LookupIdle
    /\ SyncIdle
    /\ ToolsIdle

RepairThreadStep ==
    \E id \in StartIds :
        \/ StartThread("repair", id)
        \/ BgEnter("repair", id)
        \/ BgWork("repair", id)
        \/ BgExit("repair", id)

InfoThreadStep ==
    \E id \in StartIds :
        \/ StartThread("info", id)
        \/ BgEnter("info", id)
        \/ BgWork("info", id)
        \/ BgExit("info", id)

NextTasks ==
    \/ start_repair_task
    \/ RepairThreadStep
    \/ \E force \in BOOLEAN : start_compound_info_fetch(force)
    \/ InfoThreadStep

\* a started repair thread is scheduled, and its network calls time out
SpecTasks == InitTasks /\ [][NextTasks]_vars /\ WF_vars(RepairThreadStep)

\* the start calls that returned True and whose thread has not ended
Running(task) == Pending(task) \cup Live(task)

\* C36: at most one background repair task runs at a time: of the start
\* calls made while a task is running the first returned True and started a
\* thread and the others return False; the status always becomes done in
\* the end, and then a new task can be started.
C36_OneRepairTask ==
    /\ [](Cardinality(Running("repair")) <= 1)
    /\ [][start_repair_task =>
             IF Running("repair") # {}
             THEN t_call'["repair"][NextStart("repair")].state = "refused"
             ELSE /\ t_call'["repair"][NextStart("repair")].state = "checked"
                  /\ t_status'["repair"] = "running"]_vars
    /\ (t_status["repair"] = "running") ~> (t_status["repair"] = "done")

\* a second task started after the first one was done, a call refused
\* while it ran
C36_Witness ==
    /\ t_call["repair"][1].thread = "ended"
    /\ t_call["repair"][2].state = "refused"
    /\ t_call["repair"][3].thread = "work"
    /\ t_status["repair"] = "running"

\* C37: start_compound_info_fetch starts a thread only if none is running:
\* at most one _bg_fetch_compound_info thread is active at a time.
C37_OneInfoThread == Cardinality(Live("info")) <= 1

\* --- a 404 after a rate limit ---------------------------------------
\* the last response the lookup got for the identifier at position p
FinalResponse(p) == s_log[p][Len(s_log[p])]

\* C38: lookup_cas_in_pubchem records a definitive negative as such whether
\* or not a rate limit came first: an identifier whose final response is
\* 404 has status not_found, be the 404 the first response or the response
\* to the retry after a 429.
C38_NotFoundAfterRateLimit ==
    \A p \in 1..Len(s_list) :
        (/\ s_list[p] \in DOMAIN s_results
         /\ s_log[p] # <<>>
         /\ FinalResponse(p) = HttpStatus(404))
            => s_results[s_list[p]] = Result("not_found", NoCid)

\* --- the reverse lookup of the name-search repair --------------------
MaxDumpLines == 3
MaxDumpCas == 2
MaxDumpCid == 2

DumpCas == 1..MaxDumpCas
DumpCids == 1..MaxDumpCid

\* a line "cid<TAB>cas" of the dump file; cid NoCid is text int() rejects
DumpLine == [cid : {NoCid} \cup DumpCids, cas : DumpCas]
DumpFiles == UNION {[1..n -> DumpLine] : n \in 0..MaxDumpLines}

\* cas_to_cid[cas] = cid on a dict: a key already there keeps its place and
\* gets the new value, a new key goes to the end
DictSet(cas_to_cid, cas, cid) ==
    IF \E k \in DOMAIN cas_to_cid : cas_to_cid[k].cas = cas
    THEN [k \in DOMAIN cas_to_cid |->
             IF cas_to_cid[k].cas = cas THEN [cas |-> cas, cid |-> cid]
             ELSE cas_to_cid[k]]
    ELSE Append(cas_to_cid, [cas |-> cas, cid |-> cid])

RECURSIVE LoadLoop(_, _)
LoadLoop(cas_to_cid, lines) ==
    IF lines = <<>> THEN cas_to_cid
    ELSE LoadLoop(IF Head(lines).cid = NoCid THEN cas_to_cid
                  ELSE DictSet(cas_to_cid, Head(lines).cas, Head(lines).cid),
                  Tail(lines))

\* load_pubchem_dump: the mapping in dict order, empty without a file; a
\* file gzip cannot read raises
load_pubchem_dump(mode, lines) ==
    IF mode = "raise" THEN [raised |-> TRUE, cas_to_cid |-> <<>>]
    ELSE IF mode = "missing" THEN [raised |-> FALSE, cas_to_cid |-> <<>>]
    ELSE [raised |-> FALSE, cas_to_cid |-> LoadLoop(<<>>, lines)]

Hits(cas_to_cid, best_match_cid) ==
    {k \in DOMAIN cas_to_cid : cas_to_cid[k].cid = best_match_cid}

\* a scan that keeps the last entry of the CID
ReverseLookup_LastWins(cas_to_cid, best_match_cid) ==
    IF Hits(cas_to_cid, best_match_cid) = {} THEN NoCas
    ELSE cas_to_cid[CHOOSE k \in Hits(cas_to_cid, best_match_cid) :
                        \A j \in Hits(cas_to_cid, best_match_cid) : j <= k].cas

\* lines 934-938: the scan over cas_to_cid.items(), left at the first entry
\* of the CID
ReverseLookup(cas_to_cid, best_match_cid) ==
    IF Hits(cas_to_cid, best_match_cid) = {} THEN NoCas
    ELSE cas_to_cid[CHOOSE k \in Hits(cas_to_cid, best_match_cid) :
                        \A j \in Hits(cas_to_cid, best_match_cid) : k <= j].cas

\* what the name search answers: 404, another failure, or a list of CIDs
NameResponses ==
    {[kind |-> "404", cids |-> <<>>], [kind |-> "error", cids |-> <<>>]}
        \cup {[kind |-> "200", cids |-> cids] :
                 cids \in UNION {[1..n -> DumpCids] : n \in 0..2}}

\* repair_entry_by_text_search: None, or the best match with its real_cas
repair_entry_by_text_search(named, response, mode, lines) ==
    IF ~named \/ response.kind # "200" \/ response.cids = <<>>
    THEN [called |-> TRUE, cid |-> NoCid, real_cas |-> NoCas]
    ELSE LET loaded == load_pubchem_dump(mode, lines)
         IN [called |-> TRUE,
             cid |-> response.cids[1],
             real_cas |-> IF loaded.raised THEN NoCas
                          ELSE ReverseLookup(loaded.cas_to_cid, response.cids[1])]

InitSearch ==
    /\ dump = EmptyMap /\ cacheFile = EmptyMap /\ cacheText = "json" /\ errCached = {}
    /\ ctsNet = [k \in Ids |-> CtsResponses]
    /\ apiNet = [k \in Ids |-> ApiResponses]
    /\ LookupIdle
    /\ SyncIdle
    /\ CasIdle
    /\ CombineIdle
    /\ StoreIdle
    /\ ListsIdle
    /\ HistoryIdle
    /\ RepairIdle
    /\ TaskIdle
    /\ dump_lines \in DumpFiles
    /\ dump_load \in {"ok", "missing", "raise"}
    /\ repair_match = NoRepairMatch

RepairEntryByTextSearch(named, response) ==
    /\ repair_match' = repair_entry_by_text_search(named, response, dump_load, dump_lines)
    /\ UNCHANGED <<dump_lines, dump_load>>
    /\ UNCHANGED <<diskVars, lookupVars, syncVars, casVars, combVars, storeVars, listVars,
                   histVars, repairVars, taskVars>>

NextSearch ==
    \E named \in BOOLEAN : \E response \in NameResponses :
        RepairEntryByTextSearch(named, response)

SpecSearch == InitSearch /\ [][NextSearch]_vars

\* the mapping the scan goes over; nothing when the dump could not be loaded
LoadedIndex == load_pubchem_dump(dump_load, dump_lines).cas_to_cid

FirstHit(cas_to_cid, cid) ==
    CHOOSE k \in Hits(cas_to_cid, cid) : \A j \in Hits(cas_to_cid, cid) : k <= j

\* C39: the reverse lookup agrees with the dump index: a real_cas that is
\* returned is mapped by the index to the matched CID, real_cas is absent
\* exactly when no entry of the index has that CID, and of several entries
\* with that CID the first in index order is returned.
C39_ReverseLookupConsistent ==
    (repair_match.called /\ repair_match.cid # NoCid) =>
        /\ repair_match.real_cas # NoCas =>
              \E k \in DOMAIN LoadedIndex :
                  /\ LoadedIndex[k].cas = repair_match.real_cas
                  /\ LoadedIndex[k].cid = repair_match.cid
        /\ repair_match.real_cas = NoCas <=> Hits(LoadedIndex, repair_match.cid) = {}
        /\ Hits(LoadedIndex, repair_match.cid) # {} =>
              repair_match.real_cas =
                  LoadedIndex[FirstHit(LoadedIndex, repair_match.cid)].cas

\* two registry numbers of the matched CID in the index, the first returned
C39_Witness ==
    /\ repair_match.called /\ repair_match.cid # NoCid
    /\ Cardinality(Hits(LoadedIndex, repair_match.cid)) = 2
    /\ repair_match.real_cas = LoadedIndex[1].cas
    /\ Len(dump_lines) = MaxDumpLines

====
